---- MODULE Spec2Model ----
(***************************************************************************)
(* Model of phue2.Bridge connection establishment and the registration    *)
(* handshake (src/src/phue2/bridge.py): the constructor, connect(),       *)
(* get_ip_address() and register_app(), together with the credential file *)
(* they read with json.loads and write with json.dumps.                   *)
(***************************************************************************)
EXTENDS Integers, Sequences, FiniteSets, TLC

VARIABLES
    file,    \* the credential file at config_file_path
    alive,   \* TRUE when a Bridge object exists (its constructor returned)
    sess,    \* the Bridge object's fields: ip, username (_username)
    op,      \* the operation last called: "none", "init", "connect", "register_app"
    pc,      \* where it stands: "idle" (ended), "discover" or "post" (request in flight)
    exc,     \* the exception the last operation raised, or NoExc
    io,      \* I/O of the last operation: file reads/writes, discovery GETs, POSTs
    args,    \* the arguments of the last constructor call
    env,     \* what the network answered during the last operation
    pre,     \* the file and the Session fields when the last operation started
    lastReg, \* the registration that wrote the file's current content, or NoReg
    calls,   \* explicit method calls made on the current Bridge object
    hub,     \* the bridge device's resources: lights, groups, scenes, in listing order
    lights_by_id,    \* Bridge.lights_by_id: light id -> Light object
    lights_by_name,  \* Bridge.lights_by_name: light name -> Light object
    sensors_by_id,   \* Bridge.sensors_by_id: sensor id -> Sensor object
    sensors_by_name, \* Bridge.sensors_by_name: sensor name -> Sensor object
    objs,    \* the Light objects that exist, in order of construction
    call,    \* the last call made on the Bridge or on a mirror, with its requests
    prev     \* the call made before it
\* a call records the device, the Light objects and the caches as they were
\* when it started (before)

connVars == <<file, alive, sess, op, pc, exc, io, args, env, pre, lastReg>>
mirrorVars == <<hub, lights_by_id, lights_by_name, sensors_by_id, sensors_by_name,
                objs, call, prev>>
vars == <<file, alive, sess, op, pc, exc, io, args, env, pre, lastReg, calls,
          hub, lights_by_id, lights_by_name, sensors_by_id, sensors_by_name,
          objs, call, prev>>

----------------------------------------------------------------------------
(* Bounds and input domains *)

MaxCalls == 2

None == "<None>"
Addrs == {"10.0.0.1", "10.0.0.2"}
Users == {"abc", "xyz"}

----------------------------------------------------------------------------
(* JSON values; the tag k is the first field, so values of different kinds *)
(* are told apart before their contents are looked at.                     *)

JStr(s) == [k |-> "str", s |-> s, v |-> <<>>]
JNull == [k |-> "null", s |-> "", v |-> <<>>]
JObj(members) == [k |-> "obj", s |-> "", v |-> members]
JList(items) == [k |-> "list", s |-> "", v |-> items]
JInt(n) == [k |-> "int", s |-> "", v |-> <<n>>]
JBool(b) == [k |-> "bool", s |-> "", v |-> <<b>>]
\* a float, held in tenths: JFloat(3) is 0.3
JFloat(t) == [k |-> "float", s |-> "", v |-> <<t>>]
\* a Python tuple; on the wire it is a JSON array
JTuple(items) == [k |-> "tuple", s |-> "", v |-> items]
True == JBool(TRUE)
False == JBool(FALSE)

\* dict lookup helpers: an object is a sequence of <<key, value>> in insertion order
HasKey(obj, key) == \E i \in 1..Len(obj.v) : obj.v[i][1] = key
Get(obj, key) == obj.v[CHOOSE i \in 1..Len(obj.v) : obj.v[i][1] = key][2]
\* d[key] = value on a dict: replaces in place, or appends
Put(members, key, value) ==
    IF \E i \in 1..Len(members) : members[i][1] = key
    THEN [i \in 1..Len(members) |->
            IF members[i][1] = key THEN <<key, value>> ELSE members[i]]
    ELSE Append(members, <<key, value>>)

----------------------------------------------------------------------------
(* The text of the file: a sequence of tokens, as json.dumps emits them.   *)

P(c) == [k |-> "p", v |-> c]
S(s) == [k |-> "s", v |-> s]

RECURSIVE Dumps(_), DumpMembers(_), DumpItems(_)
DumpMembers(members) ==
    IF members = <<>> THEN <<>>
    ELSE <<S(members[1][1]), P(": ")>> \o Dumps(members[1][2])
         \o (IF Len(members) > 1 THEN <<P(", ")>> ELSE <<>>)
         \o DumpMembers(Tail(members))
DumpItems(items) ==
    IF items = <<>> THEN <<>>
    ELSE Dumps(items[1])
         \o (IF Len(items) > 1 THEN <<P(", ")>> ELSE <<>>)
         \o DumpItems(Tail(items))
Dumps(val) ==
    CASE val.k = "str" -> <<S(val.s)>>
      [] val.k = "null" -> <<P("null")>>
      [] val.k = "obj" -> <<P("{")>> \o DumpMembers(val.v) \o <<P("}")>>
      [] val.k = "list" -> <<P("[")>> \o DumpItems(val.v) \o <<P("]")>>

\* json.loads skips whitespace around the structural characters
Strip(tok) ==
    IF tok = P(": ") THEN P(":")
    ELSE IF tok = P(", ") THEN P(",")
    ELSE tok

ParseFail == [ok |-> FALSE, val |-> JNull, rest |-> <<>>]
ParseOk(val, rest) == [ok |-> TRUE, val |-> val, rest |-> rest]

RECURSIVE ParseValue(_), ParseMembers(_, _), ParseItems(_, _)
ParseMembers(ts, acc) ==
    IF Len(ts) < 3 \/ ts[1].k # "s" \/ ts[2] # P(":") THEN ParseFail
    ELSE LET r == ParseValue(SubSeq(ts, 3, Len(ts))) IN
         IF ~r.ok \/ r.rest = <<>> THEN ParseFail
         ELSE LET acc2 == Put(acc, ts[1].v, r.val) IN
              IF r.rest[1] = P("}") THEN ParseOk(JObj(acc2), Tail(r.rest))
              ELSE IF r.rest[1] = P(",") THEN ParseMembers(Tail(r.rest), acc2)
              ELSE ParseFail
ParseItems(ts, acc) ==
    LET r == ParseValue(ts) IN
    IF ~r.ok \/ r.rest = <<>> THEN ParseFail
    ELSE IF r.rest[1] = P("]") THEN ParseOk(JList(Append(acc, r.val)), Tail(r.rest))
    ELSE IF r.rest[1] = P(",") THEN ParseItems(Tail(r.rest), Append(acc, r.val))
    ELSE ParseFail
ParseValue(ts) ==
    IF ts = <<>> THEN ParseFail
    ELSE IF ts[1].k = "s" THEN ParseOk(JStr(ts[1].v), Tail(ts))
    ELSE IF ts[1] = P("null") THEN ParseOk(JNull, Tail(ts))
    ELSE IF ts[1] = P("{") THEN
        IF Len(ts) >= 2 /\ ts[2] = P("}") THEN ParseOk(JObj(<<>>), SubSeq(ts, 3, Len(ts)))
        ELSE ParseMembers(Tail(ts), <<>>)
    ELSE IF ts[1] = P("[") THEN
        IF Len(ts) >= 2 /\ ts[2] = P("]") THEN ParseOk(JList(<<>>), SubSeq(ts, 3, Len(ts)))
        ELSE ParseItems(Tail(ts), <<>>)
    ELSE ParseFail

\* json.loads(text): ok = FALSE stands for json.JSONDecodeError
Loads(text) ==
    LET r == ParseValue([i \in 1..Len(text) |-> Strip(text[i])]) IN
    IF r.ok /\ r.rest = <<>> THEN [ok |-> TRUE, val |-> r.val]
    ELSE [ok |-> FALSE, val |-> JNull]

----------------------------------------------------------------------------
(* Exceptions (src/src/phue2/exceptions.py) *)

NoExc == [cls |-> "none", id |-> 0, msg |-> ""]
PhueException(id, msg) == [cls |-> "PhueException", id |-> id, msg |-> msg]
PhueRegistrationException(id, msg) ==
    [cls |-> "PhueRegistrationException", id |-> id, msg |-> msg]
PhueRequestTimeout(id, msg) == [cls |-> "PhueRequestTimeout", id |-> id, msg |-> msg]
\* a call with a keyword the signature does not have
TypeError(msg) == [cls |-> "TypeError", id |-> 0, msg |-> msg]

\* isinstance(e, PhueException): the two subclasses included
IsPhueException(e) ==
    e.cls \in {"PhueException", "PhueRegistrationException", "PhueRequestTimeout"}

MsgCannotRegister ==
    "Cannot register without an IP address. Specify the bridge IP: bridge = phue.Bridge(ip='192.168.x.x')"
MsgCouldNotFind ==
    "Could not find bridge IP address. Please specify it manually: bridge = phue.Bridge(ip='192.168.x.x')"
MsgCouldNotLoad ==
    "Could not load config and no IP address specified. Please initialize with an IP address: phue.Bridge(ip='192.168.x.x')"
MsgFailedToConnect ==
    "Failed to connect to bridge. Verify the IP address is correct and that the bridge is powered on and connected to your network."
MsgLinkButton ==
    "The link button has not been pressed in the last 30 seconds. Please press the button on the bridge and try again."
MsgUnknownUsername == "Unknown username"
MsgTimedOut == "POST Request timed out."
MsgStatus == "POST Request failed with status code"
MsgRefused == "POST Request failed: [Errno 111] Connection refused"
MsgNoRoute == "POST Request failed: [Errno 113] No route to host"

----------------------------------------------------------------------------
(* The network: what the bridge and the discovery endpoint answer *)

\* one entry of a registration response: a dict with the single key `key`
SuccessLine(rec) == [key |-> "success", success |-> rec, etype |-> 0, desc |-> ""]
ErrorLine(t, d) == [key |-> "error", success |-> JNull, etype |-> t, desc |-> d]
UserRec(u) == JObj(<< <<"username", JStr(u)>> >>)

PostOk(body) == [kind |-> "ok", status |-> 200, body |-> body]
PostFail(kind, status) == [kind |-> kind, status |-> status, body |-> <<>>]

PostResults ==
    { PostOk(<<SuccessLine(UserRec(u))>>) : u \in Users }
    \cup { PostOk(<<SuccessLine(JObj(<< <<"username", JStr("abc")>>,
                                        <<"clientkey", JStr("k1")>> >>))>>),
           PostOk(<<ErrorLine(101, "link button not pressed")>>),
           PostOk(<<ErrorLine(7, "unauthorized")>>),
           PostOk(<<ErrorLine(1, "unauthorized user")>>),
           PostOk(<<ErrorLine(6, "parameter not available"),
                    SuccessLine(UserRec("xyz"))>>),
           PostFail("timeout", 0),
           PostFail("status", 404),
           PostFail("refused", 0),
           PostFail("noroute", 0) }

\* one bridge of the discovery listing; has = FALSE: no internalipaddress key
Found(a) == [has |-> TRUE, internalipaddress |-> a]
NoAddressKey == [has |-> FALSE, internalipaddress |-> ""]
DiscOk(data) == [kind |-> "ok", data |-> data]
DiscError == [kind |-> "error", data |-> <<>>]

DiscResults ==
    { DiscError, DiscOk(<<>>), DiscOk(<<NoAddressKey>>), DiscOk(<<Found("")>>),
      DiscOk(<<Found("10.0.0.1")>>), DiscOk(<<Found("10.0.0.2"), Found("10.0.0.1")>>) }

\* the answers are not consulted by an operation that sends no such request
NoPost == PostFail("unused", 0)
NoDisc == [kind |-> "unused", data |-> <<>>]

----------------------------------------------------------------------------
(* The credential file *)

Absent == [kind |-> "absent", text |-> <<>>]
Unreadable == [kind |-> "unreadable", text |-> <<>>]
Text(toks) == [kind |-> "text", text |-> toks]

Entry(a, u) == <<S(a), P(": "), P("{"), S("username"), P(": "), S(u), P("}")>>

InitialFiles ==
    { Absent, Unreadable,
      Text(<<>>),                                                   \* empty file
      Text(<<P("{"), S("10.0.0.1")>>),                              \* truncated
      Text(<<P("{"), P("}")>>),                                     \* {}
      Text(<<P("["), P("]")>>),                                     \* []
      Text(<<P("{")>> \o Entry("10.0.0.1", "abc") \o <<P("}")>>),
      Text(<<P("{")>> \o Entry("10.0.0.2", "xyz") \o <<P(", ")>>
           \o Entry("10.0.0.1", "abc") \o <<P("}")>>),
      Text(<<P("{"), S("10.0.0.1"), P(":"), P("{"), P("}"), P("}")>>),  \* no username
      Text(<<P("{"), S("10.0.0.2"), P(":"), P("{"), S("username"), P(":"),
             P("null"), P("}"), P("}")>>) }                          \* username null

----------------------------------------------------------------------------
(* Bridge.request for the registration POST: the decoded body, or the      *)
(* exception the three except clauses raise.                               *)

request(post) ==
    CASE post.kind = "ok" -> [exc |-> NoExc, val |-> post.body]
      [] post.kind = "timeout" -> [exc |-> PhueRequestTimeout(-1, MsgTimedOut), val |-> <<>>]
      [] post.kind = "status" -> [exc |-> PhueException(post.status, MsgStatus), val |-> <<>>]
      [] post.kind = "refused" -> [exc |-> PhueException(-1, MsgRefused), val |-> <<>>]
      [] OTHER -> [exc |-> PhueException(-1, MsgNoRoute), val |-> <<>>]

\* "Failed to connect" in str(e) or "Connection refused" in str(e)
SaysConnectFailure(e) == e.msg = MsgRefused

----------------------------------------------------------------------------
(* Bridge.get_ip_address(set_result): the Session afterwards and the value *)
(* returned.                                                               *)

get_ip_address(s, disc, set_result) ==
    IF disc.kind # "ok" THEN [s |-> s, ret |-> None]           \* except Exception
    ELSE IF disc.data = <<>> THEN [s |-> s, ret |-> None]      \* if not data
    ELSE IF ~disc.data[1].has THEN [s |-> s, ret |-> None]     \* KeyError, caught
    ELSE LET ip == disc.data[1].internalipaddress IN
         [s |-> IF ip # "" /\ set_result THEN [s EXCEPT !.ip = ip] ELSE s,
          ret |-> ip]

----------------------------------------------------------------------------
(* Bridge.register_app *)

NoIO == [reads |-> 0, writes |-> 0, discoveries |-> 0, posts |-> 0]
NoReg == [ip |-> None, username |-> None]

\* An operation either ends (pc "idle": it returned, or raised exc) or waits
\* for the network (pc "discover": the GET of get_ip_address is in flight,
\* pc "post": the registration POST is in flight).
\* s: the Session, f: the file, n: the I/O so far, reg: the registration made
Done(s, f, e, n, reg) ==
    [pc |-> "idle", s |-> s, file |-> f, exc |-> e, io |-> n, reg |-> reg]
Wait(at, s, f, n) ==
    [pc |-> at, s |-> s, file |-> f, exc |-> NoExc, io |-> n, reg |-> NoReg]

\* register_app up to the POST
register_app(s, f, n) ==
    IF s.ip = None THEN Done(s, f, PhueException(-1, MsgCannotRegister), n, NoReg)
    ELSE Wait("post", s, f, n)

\* variant: the whole response entry is stored under the address
ConfigContent_WholeLine(ip, rec) == JObj(<< <<ip, JObj(<< <<"success", rec>> >>)>> >>)

\* the value handed to json.dumps: {self.ip: line["success"]}
ConfigContent(ip, rec) == JObj(<< <<ip, rec>> >>)

\* variant: type 101 raises the generic exception
ErrorOutcome_ButtonGeneric(error_type) ==
    IF error_type = 101 \/ error_type = 7
    THEN PhueException(error_type, MsgUnknownUsername)
    ELSE NoExc

\* variant: type 7 raises the registration exception too
ErrorOutcome_AllRegistration(error_type) ==
    IF error_type = 101 \/ error_type = 7
    THEN PhueRegistrationException(error_type, MsgLinkButton)
    ELSE NoExc

\* what an error entry raises; NoExc when the loop goes on to the next entry
ErrorOutcome(error_type) ==
    IF error_type = 101 THEN PhueRegistrationException(error_type, MsgLinkButton)
    ELSE IF error_type = 7 THEN PhueException(error_type, MsgUnknownUsername)
    ELSE NoExc

\* variant: the new entry is merged into the object the file held
WriteConfig_Merge(f, ip, rec) ==
    IF f.kind = "text" /\ Loads(f.text).ok /\ Loads(f.text).val.k = "obj"
    THEN Text(Dumps(JObj(Put(Loads(f.text).val.v, ip, rec))))
    ELSE Text(Dumps(ConfigContent(ip, rec)))

\* open(self.config_file_path, "w") ... f.write(json.dumps(...)); the path is
\* taken to be writable
WriteConfig(f, ip, rec) == Text(Dumps(ConfigContent(ip, rec)))

\* for line in response: for key in line: ...
RECURSIVE ResponseLoop(_, _, _, _)
ResponseLoop(s, f, lines, n) ==
    IF lines = <<>> THEN Done(s, f, NoExc, n, NoReg)
    ELSE LET line == lines[1] IN
         IF line.key = "success" THEN
             LET u == Get(line.success, "username").s IN
             Done([s EXCEPT !.username = u],
                  WriteConfig(f, s.ip, line.success),
                  NoExc,
                  [n EXCEPT !.writes = @ + 1],
                  [ip |-> s.ip, username |-> u])
         ELSE IF line.key = "error" /\ ErrorOutcome(line.etype) # NoExc THEN
             Done(s, f, ErrorOutcome(line.etype), n, NoReg)
         ELSE ResponseLoop(s, f, Tail(lines), n)

\* register_app from the POST on: post is what the transport delivers
register_app_response(s, f, post, n) ==
    LET r == request(post)
        n1 == [n EXCEPT !.posts = @ + 1] IN
    IF r.exc # NoExc THEN
        IF SaysConnectFailure(r.exc)
        THEN Done(s, f, PhueException(-1, MsgFailedToConnect), n1, NoReg)
        ELSE Done(s, f, r.exc, n1, NoReg)
    ELSE ResponseLoop(s, f, r.val, n1)

----------------------------------------------------------------------------
(* Bridge.connect *)

\* variant: no early return
BothSupplied_Never(s) == FALSE

\* if self.ip is not None and self._username is not None: return
BothSupplied(s) == s.ip # None /\ s.username # None

\* list(config.keys())[0]
FirstKey(config) == config.v[1][1]

\* config[self.ip]["username"] evaluates without KeyError or TypeError
HasCredential(config, ip) ==
    /\ config.k = "obj"
    /\ HasKey(config, ip)
    /\ Get(config, ip).k = "obj"
    /\ HasKey(Get(config, ip), "username")

\* the Python value of a JSON username: a str, or None for null
PyValue(val) == IF val.k = "str" THEN val.s ELSE None

\* except FileNotFoundError, up to the discovery GET or the POST
OnFileNotFound(s, f, n) ==
    IF s.ip = None THEN Wait("discover", s, f, n)
    ELSE register_app(s, f, n)

\* variant: the result of get_ip_address is not checked
OnDiscovered_NoCheck(s, f, disc, n) ==
    register_app(get_ip_address(s, disc, TRUE).s, f, [n EXCEPT !.discoveries = @ + 1])

\* except FileNotFoundError, from the return of get_ip_address(set_result=True) on
OnDiscovered(s, f, disc, n) ==
    LET g == get_ip_address(s, disc, TRUE)
        n1 == [n EXCEPT !.discoveries = @ + 1] IN
    IF g.ret = None
    THEN Done(g.s, f, PhueException(-1, MsgCouldNotFind), n1, NoReg)
    ELSE register_app(g.s, f, n1)

\* except json.JSONDecodeError
OnJSONDecodeError(s, f, n) == register_app(s, f, n)

\* variant: any failure to load the file is handled like a missing file
OnException_Discover(s, f, n) == OnFileNotFound(s, f, n)

\* except Exception
OnException(s, f, n) ==
    IF s.ip = None
    THEN Done(s, f, PhueException(-1, MsgCouldNotLoad), n, NoReg)
    ELSE register_app(s, f, n)

\* the body of `with open(self.config_file_path) as f:` once json.loads returned
UseConfig(s, f, config, n) ==
    IF s.ip = None /\ (config.k # "obj" \/ config.v = <<>>)
    THEN OnException(s, f, n)          \* AttributeError, IndexError
    ELSE LET s1 == IF s.ip = None THEN [s EXCEPT !.ip = FirstKey(config)] ELSE s IN
         IF s1.username # None THEN Done(s1, f, NoExc, n, NoReg)
         ELSE IF ~HasCredential(config, s1.ip)
         THEN OnException(s1, f, n)    \* KeyError, TypeError
         ELSE LET val == Get(Get(config, s1.ip), "username")
                  s2 == [s1 EXCEPT !.username = PyValue(val)] IN
              IF val.k # "str"
              THEN OnException(s2, f, n)   \* str + None in the log call
              ELSE Done(s2, f, NoExc, n, NoReg)

\* connect up to its first network request
connect(s, f) ==
    IF BothSupplied(s) THEN Done(s, f, NoExc, NoIO, NoReg)
    ELSE LET n == [NoIO EXCEPT !.reads = 1] IN
         IF f.kind = "absent" THEN OnFileNotFound(s, f, n)
         ELSE IF f.kind = "unreadable" THEN OnException(s, f, n)
         ELSE LET parsed == Loads(f.text) IN
              IF ~parsed.ok THEN OnJSONDecodeError(s, f, n)
              ELSE UseConfig(s, f, parsed.val, n)

----------------------------------------------------------------------------
(* Bridge.__init__(ip, username, config_file_path, timeout) *)

NoSess == [ip |-> None, username |-> None]

\* kw: the caller's keywords; save_config is "omitted" unless the caller passes it.
\* The signature has no save_config parameter, so passing one raises TypeError
\* before the body runs.
bridge_init(kw, f) ==
    IF kw.save_config # "omitted"
    THEN Done(NoSess, f, TypeError("unexpected keyword argument 'save_config'"),
              NoIO, NoReg)
    ELSE connect([ip |-> kw.ip, username |-> kw.username], f)

----------------------------------------------------------------------------
(* The resources of the bridge device and the calls made on them; in the   *)
(* connection model there are none.                                        *)

NoHub == [lights |-> <<>>, groups |-> <<>>, scenes |-> <<>>, sensors |-> <<>>]
NoCall == [name |-> "none", ref |-> 0, prop |-> "", value |-> JNull,
           ret |-> JNull, exc |-> NoExc, reqs |-> <<>>, plan |-> <<>>,
           before |-> [hub |-> NoHub, objs |-> <<>>, by_id |-> <<>>, by_name |-> <<>>,
                       sensors_by_id |-> <<>>, sensors_by_name |-> <<>>]]

----------------------------------------------------------------------------
(* State machine *)

SuppliedUsers == {"usr"}
SaveConfigArgs == {"omitted", "False"}

Init ==
    /\ file \in InitialFiles
    /\ alive = FALSE
    /\ sess = NoSess
    /\ op = "none"
    /\ pc = "idle"
    /\ exc = NoExc
    /\ io = NoIO
    /\ args = [ip |-> None, username |-> None, save_config |-> "omitted"]
    /\ env = [disc |-> NoDisc, post |-> NoPost]
    /\ pre = [file |-> file, ip |-> None, username |-> None, reg |-> NoReg]
    /\ lastReg = NoReg
    /\ calls = 0
    /\ hub = NoHub
    /\ lights_by_id = <<>>
    /\ lights_by_name = <<>>
    /\ sensors_by_id = <<>>
    /\ sensors_by_name = <<>>
    /\ objs = <<>>
    /\ call = NoCall
    /\ prev = NoCall

\* r: where the operation stands after this step
Step(o, r) ==
    /\ op' = o
    /\ pc' = r.pc
    /\ sess' = r.s
    /\ file' = r.file
    /\ exc' = r.exc
    /\ io' = r.io
    /\ lastReg' = IF r.reg # NoReg THEN r.reg ELSE lastReg
    /\ alive' = IF o = "init" THEN r.pc = "idle" /\ r.exc = NoExc ELSE alive
    /\ UNCHANGED mirrorVars

\* Bridge(ip, username, config_file_path=path[, save_config=...])
Construct ==
    \E ip \in Addrs \cup {None}, username \in SuppliedUsers \cup {None},
       save_config \in SaveConfigArgs :
        LET kw == [ip |-> ip, username |-> username, save_config |-> save_config] IN
        /\ pc = "idle"
        /\ Step("init", bridge_init(kw, file))
        /\ args' = kw
        /\ env' = [disc |-> NoDisc, post |-> NoPost]
        /\ pre' = [file |-> file, ip |-> ip, username |-> username, reg |-> lastReg]
        /\ calls' = 0

\* bridge.connect() called again on an existing Bridge
Connect ==
    /\ pc = "idle" /\ alive /\ calls < MaxCalls
    /\ Step("connect", connect(sess, file))
    /\ env' = [disc |-> NoDisc, post |-> NoPost]
    /\ pre' = [file |-> file, ip |-> sess.ip, username |-> sess.username, reg |-> lastReg]
    /\ calls' = calls + 1
    /\ UNCHANGED args

\* bridge.register_app() called on an existing Bridge
RegisterApp ==
    /\ pc = "idle" /\ alive /\ calls < MaxCalls
    /\ Step("register_app", register_app(sess, file, NoIO))
    /\ env' = [disc |-> NoDisc, post |-> NoPost]
    /\ pre' = [file |-> file, ip |-> sess.ip, username |-> sess.username, reg |-> lastReg]
    /\ calls' = calls + 1
    /\ UNCHANGED args

\* the discovery endpoint answers (or the GET fails) and connect goes on
Discovery ==
    \E disc \in DiscResults :
        /\ pc = "discover"
        /\ Step(op, OnDiscovered(sess, file, disc, io))
        /\ env' = [env EXCEPT !.disc = disc]
        /\ UNCHANGED <<args, pre, calls>>

\* the bridge answers the registration POST (or the POST fails) and
\* register_app goes on
Response ==
    \E post \in PostResults :
        /\ pc = "post"
        /\ Step(op, register_app_response(sess, file, post, io))
        /\ env' = [env EXCEPT !.post = post]
        /\ UNCHANGED <<args, pre, calls>>

Next == Construct \/ Connect \/ RegisterApp \/ Discovery \/ Response

Spec == Init /\ [][Next]_vars

----------------------------------------------------------------------------
(* Properties *)

\* the last operation has ended
Ended == pc = "idle"
\* the constructor was called with keywords its signature has, and has ended
Constructed == op = "init" /\ Ended /\ args.save_config = "omitted"
\* the registration POST of the last operation was answered with a body
Answered == Ended /\ env.post.kind = "ok"
FirstIs(body, etypes) ==
    body # <<>> /\ body[1].key = "error" /\ body[1].etype \in etypes
\* the entries before entry i are errors the loop passes over
PassedOver(body, i) ==
    \A j \in 1..(i - 1) : body[j].key = "error" /\ body[j].etype \notin {101, 7}
YieldsSuccess(body) ==
    \E i \in 1..Len(body) : body[i].key = "success" /\ PassedOver(body, i)
SuccessRecord(body) ==
    body[CHOOSE i \in 1..Len(body) : body[i].key = "success" /\ PassedOver(body, i)].success
OneEntryText(ip, u) == Text(<<P("{")>> \o Entry(ip, u) \o <<P("}")>>)

\* C1: after the constructor (connect()) returns without raising, both the
\* address and the credential of the Session are set.
C1_ConnectSetsBoth ==
    (op = "init" /\ Ended /\ exc = NoExc) => (sess.ip # None /\ sess.username # None)

\* C2: when the registration response yields a success entry, register_app sets
\* the credential to that entry's username and the credential file holds exactly
\* the one-entry object {address: success record}; for a record that holds only
\* a username the text is {"<address>": {"username": "<username>"}}.
C2_SuccessWritesExactFile ==
    (Answered /\ YieldsSuccess(env.post.body)) =>
        LET rec == SuccessRecord(env.post.body) IN
        /\ exc = NoExc
        /\ sess.username = Get(rec, "username").s
        /\ io.writes = 1
        /\ file.kind = "text"
        /\ Loads(file.text) = [ok |-> TRUE, val |-> JObj(<< <<sess.ip, rec>> >>)]
        /\ (Len(rec.v) = 1 => file = OneEntryText(sess.ip, sess.username))

C2_Witness ==
    /\ op = "init" /\ Ended /\ exc = NoExc
    /\ env.post = PostOk(<<SuccessLine(UserRec("abc"))>>)
    /\ pre.file # Absent /\ pre.file # file
    /\ sess = [ip |-> "10.0.0.1", username |-> "abc"]
    /\ file = Text(<<P("{"), S("10.0.0.1"), P(": "), P("{"), S("username"), P(": "),
                     S("abc"), P("}"), P("}")>>)

\* C3: when the first entry of the registration response is an error of type 101,
\* the handshake raises PhueRegistrationException after a single POST, writes no
\* credential file and leaves the credential as it was (unset when it was unset).
C3_ButtonNotPressed ==
    (Answered /\ FirstIs(env.post.body, {101})) =>
        /\ exc.cls = "PhueRegistrationException"
        /\ exc.id = 101
        /\ io.posts = 1
        /\ io.writes = 0
        /\ file = pre.file
        /\ sess.username = pre.username
        /\ lastReg = pre.reg
        /\ (op = "init" => ~alive)

C3_Witness ==
    /\ op = "init" /\ Ended
    /\ FirstIs(env.post.body, {101})
    /\ exc.cls = "PhueRegistrationException"
    /\ pre.username = None /\ sess.username = None
    /\ file = Absent /\ io.posts = 1

\* C4: when the first entry of the registration response is an error of type 7,
\* the handshake raises the generic PhueException with code 7, not the
\* PhueRegistrationException subtype, and writes no credential file.
C4_UnknownUser ==
    (Answered /\ FirstIs(env.post.body, {7})) =>
        /\ exc.cls = "PhueException"
        /\ exc.id = 7
        /\ io.writes = 0
        /\ file = pre.file

C4_Witness ==
    /\ op = "init" /\ Ended
    /\ FirstIs(env.post.body, {7})
    /\ exc = PhueException(7, MsgUnknownUsername)
    /\ file = Absent

\* C5: when the first entry of the registration response is an error whose type
\* is neither 101 nor 7, the handshake raises a generic PhueException carrying
\* that code; register_app does not return normally.
C5_OtherErrorRaises ==
    (Answered /\ env.post.body # <<>> /\ env.post.body[1].key = "error"
        /\ env.post.body[1].etype \notin {101, 7}) =>
        /\ exc.cls = "PhueException"
        /\ exc.id = env.post.body[1].etype

\* C6: when both address and credential are passed to the constructor, it ends
\* ready with no I/O at all: no file read or write, no discovery, no
\* registration request; ip and username are the supplied values.
C6_BothSuppliedNoIO ==
    (op = "init" /\ args.save_config = "omitted"
        /\ args.ip # None /\ args.username # None) =>
        /\ Ended /\ alive /\ exc = NoExc
        /\ io = NoIO
        /\ env = [disc |-> NoDisc, post |-> NoPost]
        /\ file = pre.file
        /\ lastReg = pre.reg
        /\ sess = [ip |-> args.ip, username |-> args.username]

C6_Witness ==
    /\ op = "init" /\ Ended /\ alive
    /\ args = [ip |-> "10.0.0.2", username |-> "usr", save_config |-> "omitted"]
    /\ sess = [ip |-> "10.0.0.2", username |-> "usr"]
    /\ pre.file \in {Absent, Unreadable}

\* C7: after a registration for address A has written the credential file, a
\* new Session constructed on that file with address A and no credential, or
\* with neither, gets address A and the registered credential from the file and
\* sends no discovery and no registration request.
C7_RegisterThenReload ==
    (op = "init" /\ args.save_config = "omitted" /\ pre.reg # NoReg
        /\ args.username = None /\ args.ip \in {None, pre.reg.ip}) =>
        /\ Ended /\ alive /\ exc = NoExc
        /\ sess = pre.reg
        /\ io = [reads |-> 1, writes |-> 0, discoveries |-> 0, posts |-> 0]
        /\ file = pre.file

C7_Witness ==
    /\ op = "init" /\ Ended /\ alive
    /\ args = [ip |-> None, username |-> None, save_config |-> "omitted"]
    /\ pre.reg = [ip |-> "10.0.0.2", username |-> "xyz"]
    /\ sess = [ip |-> "10.0.0.2", username |-> "xyz"]

InvalidJSON(f) == f.kind = "text" /\ ~Loads(f.text).ok
\* the file is consulted: the constructor got its keywords, and not both values
Consulted == Constructed /\ (args.ip = None \/ args.username = None)

\* C8 as claimed: with the credential file absent, unreadable or not valid JSON,
\* connect() goes on to discovery when no address was supplied, and to the
\* registration handshake once an address is known.
C8_FileFailureFallsThrough ==
    (Consulted /\ (pre.file \in {Absent, Unreadable} \/ InvalidJSON(pre.file))) =>
        /\ (args.ip = None => io.discoveries = 1)
        /\ (sess.ip # None => io.posts = 1)

\* C8 as amended: with the file absent, connect() goes on to discovery when no
\* address was supplied and to the handshake once an address is known; with the
\* file unreadable or not valid JSON it goes on to the handshake when an address
\* was supplied, and otherwise raises PhueException with no discovery and no
\* registration request.
C8_FileFailureAmended ==
    /\ (Consulted /\ pre.file = Absent) =>
        /\ (args.ip = None => io.discoveries = 1)
        /\ (args.ip # None => io.discoveries = 0)
        /\ (sess.ip # None => io.posts = 1)
    /\ (Consulted /\ (pre.file = Unreadable \/ InvalidJSON(pre.file))) =>
        /\ io.discoveries = 0
        /\ (args.ip # None => io.posts = 1 /\ sess.ip = args.ip)
        /\ (args.ip = None =>
                /\ io.posts = 0
                /\ sess.ip = None
                /\ exc.cls = "PhueException"
                /\ exc.id = -1
                /\ exc.msg = IF pre.file = Unreadable THEN MsgCouldNotLoad
                             ELSE MsgCannotRegister)

C8_Witness ==
    /\ Consulted
    /\ InvalidJSON(pre.file)
    /\ args.ip = None
    /\ exc = PhueException(-1, MsgCannotRegister)
    /\ io = [reads |-> 1, writes |-> 0, discoveries |-> 0, posts |-> 0]

\* C9: when no address is supplied, none comes from the credential file and
\* network discovery fails (network error or empty result list), connect()
\* raises the PhueException that tells the caller to supply an address; no
\* registration request is sent and no credential file is written.
C9_DiscoveryFailureFatal ==
    (Ended /\ (env.disc = DiscError \/ env.disc = DiscOk(<<>>))) =>
        /\ op = "init" /\ args.ip = None /\ pre.file = Absent
        /\ exc = PhueException(-1, MsgCouldNotFind)
        /\ ~alive
        /\ sess.ip = None
        /\ io = [reads |-> 1, writes |-> 0, discoveries |-> 1, posts |-> 0]
        /\ env.post = NoPost
        /\ file = pre.file

C9_Witness ==
    /\ op = "init" /\ Ended
    /\ env.disc = DiscOk(<<>>)
    /\ args = [ip |-> None, username |-> None, save_config |-> "omitted"]
    /\ exc = PhueException(-1, MsgCouldNotFind)
    /\ io.posts = 0 /\ file = Absent

\* C10: with save_config=False passed to the constructor, the registration
\* handshake is performed, and a success entry sets the credential in memory
\* while the credential file is not created.
C10_NoSaveConfig ==
    (op = "init" /\ Ended /\ args.save_config = "False"
        /\ args.ip # None /\ args.username = None /\ pre.file = Absent) =>
        /\ io.posts = 1
        /\ (Answered /\ YieldsSuccess(env.post.body) =>
                /\ alive
                /\ sess.username = Get(SuccessRecord(env.post.body), "username").s
                /\ file = Absent)

\* C11: connect() performs the registration handshake only when no credential
\* is known; a credential passed to the constructor is still the Session's
\* credential when the constructor returns.
C11_SuppliedCredentialKept ==
    (Constructed /\ args.username # None) =>
        /\ io.posts = 0
        /\ (exc = NoExc => sess.username = args.username)

\* the addresses that are keys of the object a file holds
FileAddrs(f) ==
    IF f.kind = "text" /\ Loads(f.text).ok /\ Loads(f.text).val.k = "obj"
    THEN {Loads(f.text).val.v[i][1] : i \in 1..Len(Loads(f.text).val.v)}
    ELSE {}

\* C12: a successful registration for address A rewrites the credential file as
\* a whole: afterwards the file holds the entry of A and no entry of any other
\* address that was in it before.
C12_OverwriteNotMerge ==
    (Ended /\ io.writes >= 1) =>
        /\ FileAddrs(file) = {sess.ip}
        /\ \A a \in FileAddrs(pre.file) \ {sess.ip} : a \notin FileAddrs(file)

C12_Witness ==
    /\ Ended /\ io.writes = 1
    /\ sess.ip = "10.0.0.1"
    /\ "10.0.0.2" \in FileAddrs(pre.file)
    /\ FileAddrs(file) = {"10.0.0.1"}

----------------------------------------------------------------------------
(* Python conversions used on resource ids and values *)

\* the decimal strings the model uses, with the integers they denote
\* a name bound to the value of an expression: K applied to x
Bind(x, K(_)) == K(x)

IntOf == ("1" :> 1) @@ ("2" :> 2) @@ ("3" :> 3) @@ ("10" :> 10)

isdigit(s) == s \in DOMAIN IntOf
int(s) == IntOf[s]
\* str(x) of an int or of a str
str(x) == IF x.k = "str" THEN x.s ELSE CHOOSE s \in DOMAIN IntOf : IntOf[s] = x.v[1]
\* float(x) of an int or of a float
float(x) == IF x.k = "int" THEN JFloat(10 * x.v[1]) ELSE x
\* int(round(x)): halves go to the even neighbour
int_round(x) ==
    IF x.k = "int" THEN x
    ELSE LET q == x.v[1] \div 10
             r == x.v[1] % 10
         IN JInt(IF r < 5 THEN q
                 ELSE IF r > 5 THEN q + 1
                 ELSE IF q % 2 = 0 THEN q ELSE q + 1)
\* what a value is after json encoding and decoding: tuples arrive as lists
RECURSIVE Wire(_)
Wire(x) ==
    CASE x.k = "tuple" -> JList([i \in 1..Len(x.v) |-> Wire(x.v[i])])
      [] x.k = "list" -> JList([i \in 1..Len(x.v) |-> Wire(x.v[i])])
      [] x.k = "obj" -> JObj([i \in 1..Len(x.v) |-> <<x.v[i][1], Wire(x.v[i][2])>>])
      [] OTHER -> x

\* del d[key]
Del(members, key) == SelectSeq(members, LAMBDA m : m[1] # key)

----------------------------------------------------------------------------
(* The bridge device behind the transport: it holds the resources, stores  *)
(* what a write sends and reports it on the next read.                     *)

\* one resource: id is its key in the listing; state is its "state" (light)
\* or "action" (group) object; lights is the member list of a group or scene
Resource(id, name, state, lights) ==
    [id |-> id, name |-> name, state |-> state, lights |-> lights]

\* one sensor: its "state" and "config" objects and its type
SensorResource(id, name, type, state, config) ==
    [id |-> id, name |-> name, type |-> type, state |-> state, config |-> config]

IdList(ids) == JList([i \in 1..Len(ids) |-> JStr(ids[i])])

\* the document of one resource of collection c
Doc(c, r) ==
    CASE c = "lights" -> JObj(<< <<"state", r.state>>, <<"name", JStr(r.name)>> >>)
      [] c = "groups" -> JObj(<< <<"name", JStr(r.name)>>, <<"lights", IdList(r.lights)>>,
                                 <<"action", r.state>> >>)
      [] c = "sensors" -> JObj(<< <<"state", r.state>>, <<"config", r.config>>,
                                  <<"name", JStr(r.name)>>, <<"type", JStr(r.type)>> >>)
      [] OTHER -> JObj(<< <<"name", JStr(r.name)>>, <<"lights", IdList(r.lights)>> >>)

\* the full listing of a collection: an object keyed by id, in listing order
Listing(c, rs) == JObj([i \in 1..Len(rs) |-> <<rs[i].id, Doc(c, rs[i])>>])

ErrorBody(t, d) ==
    JList(<< JObj(<< <<"error", JObj(<< <<"type", JInt(t)>>,
                                        <<"description", JStr(d)>> >>)>> >>) >>)
SuccessBody(data) == JList(<< JObj(<< <<"success", data>> >>) >>)

\* the stored object after a write of `data`; transitiontime is not stored
RECURSIVE Stored(_, _, _)
Stored(members, data, i) ==
    IF i > Len(data.v) THEN members
    ELSE Stored(IF data.v[i][1] = "transitiontime" THEN members
                ELSE Put(members, data.v[i][1], data.v[i][2]),
                data, i + 1)

SubKey(c) == IF c = "groups" THEN "action" ELSE "state"

\* the ids no resource of rs has, and the one the device gives out next
FreeIds(rs) == {s \in DOMAIN IntOf : \A i \in 1..Len(rs) : rs[i].id # s}
NewId(rs) == CHOOSE s \in FreeIds(rs) : \A t \in FreeIds(rs) : IntOf[s] <= IntOf[t]

\* the sensor the device makes of the body of a POST
Created(id, data) ==
    SensorResource(id, Get(data, "name").s, Get(data, "type").s,
                   IF HasKey(data, "state") THEN Get(data, "state") ELSE JObj(<<>>),
                   IF HasKey(data, "config") THEN Get(data, "config") ELSE JObj(<<>>))

\* the answer to one request, and the device afterwards
HubAnswer(h, mode, address, data, how) ==
    LET c == address[1]
        at == IF Len(address) >= 2
              THEN {i \in 1..Len(h[c]) : h[c][i].id = address[2]} ELSE {}
        i == CHOOSE j \in at : TRUE
        r == h[c][i]
    IN
    CASE how = "error" ->
            [hub |-> h, body |-> ErrorBody(901, "Internal error, 404")]
      [] how = "ok" /\ Len(address) = 1 /\ mode = "GET" ->
            [hub |-> h, body |-> Listing(c, h[c])]
      [] how = "ok" /\ Len(address) = 1 /\ mode = "POST" /\ c = "sensors" ->
            IF FreeIds(h[c]) = {}
            THEN [hub |-> h, body |-> ErrorBody(301, "sensor list is full")]
            ELSE [hub |-> [h EXCEPT ![c] = Append(@, Created(NewId(h[c]), data))],
                  body |-> SuccessBody(JObj(<< <<"id", JStr(NewId(h[c]))>> >>))]
      [] how = "ok" /\ Len(address) >= 2 /\ at = {} ->
            [hub |-> h, body |-> ErrorBody(3, "resource not available")]
      [] how = "ok" /\ Len(address) = 2 /\ mode = "GET" ->
            [hub |-> h, body |-> Doc(c, r)]
      [] how = "ok" /\ Len(address) = 2 /\ mode = "PUT" /\ c = "sensors" ->
            [hub |-> [h EXCEPT ![c][i].name = IF HasKey(data, "name")
                                              THEN Get(data, "name").s ELSE @],
             body |-> SuccessBody(data)]
      [] how = "ok" /\ Len(address) = 3 /\ mode = "PUT" /\ c = "sensors"
                    /\ address[3] \in {"state", "config"} ->
            IF HasKey(data, "lastupdated")
            THEN [hub |-> h, body |-> ErrorBody(8, "parameter, lastupdated, is not modifiable")]
            ELSE [hub |-> [h EXCEPT ![c][i][address[3]] =
                                       JObj(Stored(r[address[3]].v, data, 1))],
                  body |-> SuccessBody(data)]
      [] how = "ok" /\ Len(address) = 2 /\ mode = "PUT" ->
            [hub |-> [h EXCEPT ![c][i] =
                        [r EXCEPT !.name = IF HasKey(data, "name")
                                           THEN Get(data, "name").s ELSE @,
                                  !.lights = IF HasKey(data, "lights")
                                             THEN [j \in 1..Len(Get(data, "lights").v) |->
                                                      str(Get(data, "lights").v[j])]
                                             ELSE @]],
             body |-> SuccessBody(data)]
      [] how = "ok" /\ Len(address) = 3 /\ mode = "PUT" /\ address[3] = SubKey(c) ->
            [hub |-> [h EXCEPT ![c][i].state = JObj(Stored(r.state.v, data, 1))],
             body |-> SuccessBody(data)]
      [] how = "ok" /\ Len(address) = 2 /\ mode = "DELETE" ->
            [hub |-> [h EXCEPT ![c] = SelectSeq(@, LAMBDA x : x.id # address[2])],
             body |-> SuccessBody(JStr("deleted"))]
      [] OTHER ->
            [hub |-> h, body |-> ErrorBody(4, "method not available for resource")]

----------------------------------------------------------------------------
(* Bridge.request for resource calls.  A call works on a record w: the     *)
(* device (hub), the Light objects (objs), the two light caches (by_id,    *)
(* by_name), the requests made so far with their answers (reqs), how the   *)
(* transport answers the requests of this call, in order (plan; "ok" once  *)
(* it is used up), the exception raised (exc) and the value returned (ret).*)

\* "ok": the bridge answers; "error": it answers with an error-shaped body;
\* the others are failures of the transport
Hows == {"ok", "error", "timeout", "status", "refused"}

MsgRequestTimedOut(mode) ==
    CASE mode = "GET" -> "GET Request timed out."
      [] mode = "PUT" -> "PUT Request timed out."
      [] mode = "DELETE" -> "DELETE Request timed out."
      [] OTHER -> MsgTimedOut

\* the exception Bridge.request raises for a failure of the transport
RequestFailure(mode, how) ==
    CASE how = "timeout" -> PhueRequestTimeout(-1, MsgRequestTimedOut(mode))
      [] how = "status" -> PhueException(500, "Request failed with status code 500")
      [] how = "refused" -> PhueException(-1, "Request failed: Connection refused")
      [] OTHER -> NoExc

KeyError(msg) == [cls |-> "KeyError", id |-> 0, msg |-> msg]
AssertionError(msg) == [cls |-> "AssertionError", id |-> 0, msg |-> msg]

Raise(w, e) == [w EXCEPT !.exc = e, !.ret = JNull]
Return(w, x) == [w EXCEPT !.ret = x]

\* the error check after each write: it logs a warning and nothing else
IsErrorShaped(body) ==
    /\ body.k = "list"
    /\ Len(body.v) > 0
    /\ body.v[1].k = "obj" /\ HasKey(body.v[1], "error")

\* variant: an error-shaped body is raised as a PhueException
Request_RaiseOnError(w, mode, address, data) ==
    Bind(IF Len(w.reqs) < Len(w.plan) THEN w.plan[Len(w.reqs) + 1] ELSE "ok", LAMBDA how :
    Bind(HubAnswer(w.hub, mode, address, Wire(data), how), LAMBDA a :
    Bind([mode |-> mode, address |-> address, data |-> Wire(data)], LAMBDA rq :
    IF how \notin {"ok", "error"} \/ IsErrorShaped(a.body)
    THEN [w EXCEPT !.reqs = Append(@, [rq |-> rq, how |-> how, body |-> JNull,
                                       exc |-> PhueException(-1, "error")]),
                   !.exc = PhueException(-1, "error"),
                   !.ret = JNull]
    ELSE [w EXCEPT !.reqs = Append(@, [rq |-> rq, how |-> how, body |-> a.body,
                                       exc |-> NoExc]),
                   !.hub = a.hub,
                   !.ret = a.body])))

\* variant: a request that timed out is sent once more
Request_Retry(w, mode, address, data) ==
    Bind(IF Len(w.reqs) < Len(w.plan) THEN w.plan[Len(w.reqs) + 1] ELSE "ok", LAMBDA how :
    Bind([mode |-> mode, address |-> address, data |-> Wire(data)], LAMBDA rq :
    Bind(IF how = "timeout"
         THEN [w EXCEPT !.reqs = Append(@, [rq |-> rq, how |-> how, body |-> JNull,
                                            exc |-> NoExc])]
         ELSE w, LAMBDA w0 :
    Bind(IF Len(w0.reqs) < Len(w0.plan) THEN w0.plan[Len(w0.reqs) + 1] ELSE "ok", LAMBDA how1 :
    Bind(HubAnswer(w0.hub, mode, address, Wire(data), how1), LAMBDA a :
    IF how1 \notin {"ok", "error"}
    THEN [w0 EXCEPT !.reqs = Append(@, [rq |-> rq, how |-> how1, body |-> JNull,
                                        exc |-> RequestFailure(mode, how1)]),
                    !.exc = RequestFailure(mode, how1),
                    !.ret = JNull]
    ELSE [w0 EXCEPT !.reqs = Append(@, [rq |-> rq, how |-> how1, body |-> a.body,
                                        exc |-> NoExc]),
                    !.hub = a.hub,
                    !.ret = a.body])))))

\* Bridge.request: one HTTP attempt, logged in reqs with its answer and with
\* the exception it raised
Request(w, mode, address, data) ==
    Bind(IF Len(w.reqs) < Len(w.plan) THEN w.plan[Len(w.reqs) + 1] ELSE "ok", LAMBDA how :
    Bind(HubAnswer(w.hub, mode, address, Wire(data), how), LAMBDA a :
    Bind([mode |-> mode, address |-> address, data |-> Wire(data)], LAMBDA rq :
    IF how \notin {"ok", "error"}
    THEN [w EXCEPT !.reqs = Append(@, [rq |-> rq, how |-> how, body |-> JNull,
                                       exc |-> RequestFailure(mode, how)]),
                   !.exc = RequestFailure(mode, how),
                   !.ret = JNull]
    ELSE [w EXCEPT !.reqs = Append(@, [rq |-> rq, how |-> how, body |-> a.body,
                                       exc |-> NoExc]),
                   !.hub = a.hub,
                   !.ret = a.body])))

\* the keys of an object for which Test holds, in order
FirstWhere(obj, Test(_)) ==
    LET hits == {i \in 1..Len(obj.v) : Test(obj.v[i])}
    IN IF hits = {} THEN 0 ELSE CHOOSE i \in hits : \A j \in hits : i <= j

\* lights[light_id]["name"] on a listing entry
NameOf(doc) == IF doc.k = "obj" /\ HasKey(doc, "name") THEN Get(doc, "name") ELSE JNull

get_light_id_by_name(w, name) ==
    Bind(Request(w, "GET", <<"lights">>, JNull), LAMBDA w1 :
    IF w1.exc # NoExc THEN w1
    ELSE IF w1.ret.k # "obj" THEN Raise(w1, TypeError("list indices must be integers"))
    ELSE Bind(FirstWhere(w1.ret, LAMBDA m : NameOf(m[2]) = JStr(name)), LAMBDA i :
         IF i = 0 THEN Return(w1, JNull)
         ELSE Return(w1, JInt(int(w1.ret.v[i][1])))))

TopLevel == {"name", "type", "uniqueid", "swversion"}

get_light(w, light_id, parameter) ==
    Bind(IF light_id.k = "str" /\ ~isdigit(light_id.s)
         THEN get_light_id_by_name(w, light_id.s)
         ELSE Return(w, light_id), LAMBDA w1 :
    IF w1.exc # NoExc THEN w1
    ELSE Bind(Request(w1, "GET",
                      IF w1.ret = JNull THEN <<"lights">> ELSE <<"lights", str(w1.ret)>>,
                      JNull), LAMBDA w2 :
         Bind(w2.ret, LAMBDA state :
         IF w1.ret = JNull THEN w2
         ELSE IF w2.exc # NoExc THEN w2
         ELSE IF parameter = None THEN w2
         ELSE IF state.k # "obj"
              THEN Raise(w2, TypeError("list indices must be integers"))
         ELSE IF parameter \in TopLevel
              THEN IF HasKey(state, parameter) THEN Return(w2, Get(state, parameter))
                   ELSE Raise(w2, KeyError(parameter))
         ELSE IF HasKey(state, "state") /\ HasKey(Get(state, "state"), parameter)
              THEN Return(w2, Get(Get(state, "state"), parameter))
              ELSE Raise(w2, KeyError("Not a valid key")))))

\* data = {parameter: value}, with transitiontime when it is given
Payload(parameter, value, transitiontime) ==
    JObj(IF transitiontime # JNull
         THEN Put(<< <<parameter, value>> >>, "transitiontime", int_round(transitiontime))
         ELSE << <<parameter, value>> >>)

\* the loop of set_light over light_id_array, from element i on
RECURSIVE set_light_loop(_, _, _, _, _, _)
set_light_loop(w, array, i, parameter, data, result) ==
    IF w.exc # NoExc THEN w
    ELSE IF i > Len(array) THEN Return(w, JList(result))
    ELSE Bind(array[i], LAMBDA light :
         Bind(IF parameter # "name" /\ light.k = "str" /\ ~isdigit(light.s)
              THEN get_light_id_by_name(w, light.s)
              ELSE Return(w, light), LAMBDA w1 :
         IF w1.exc # NoExc THEN w1
         ELSE IF w1.ret = JNull /\ light # JNull              \* continue
              THEN set_light_loop(w1, array, i + 1, parameter, data, result)
         ELSE Bind(Request(w1, "PUT",
                           IF parameter = "name" THEN <<"lights", str(light)>>
                           ELSE <<"lights", str(w1.ret), "state">>,
                           data), LAMBDA w2 :
              set_light_loop(w2, array, i + 1, parameter, data, Append(result, w2.ret)))))

\* light_id: one id or name, or a list of them
set_light(w, light_id, parameter, value, transitiontime) ==
    set_light_loop(w, IF light_id.k = "list" THEN light_id.v ELSE <<light_id>>, 1,
                   parameter, Payload(parameter, value, transitiontime), <<>>)

\* a dict of the caller, held by reference
Mapping(members) == [members |-> members]

\* set_light(light_id, parameter) with a dict as parameter: data is the
\* caller's dict itself, and transitiontime is stored into it
set_light_mapping(w, light_id, ref, transitiontime) ==
    Bind(IF transitiontime # JNull
         THEN [w EXCEPT !.objs[ref].members =
                            Put(@, "transitiontime", int_round(transitiontime))]
         ELSE w, LAMBDA w0 :
    set_light_loop(w0, IF light_id.k = "list" THEN light_id.v ELSE <<light_id>>, 1,
                   "<dict>", JObj(w0.objs[ref].members), <<>>))

get_group_id_by_name(w, name) ==
    Bind(Request(w, "GET", <<"groups">>, JNull), LAMBDA w1 :
    IF w1.exc # NoExc THEN w1
    ELSE IF w1.ret.k # "obj" THEN Raise(w1, TypeError("list indices must be integers"))
    ELSE Bind(FirstWhere(w1.ret, LAMBDA m : NameOf(m[2]) = JStr(name)), LAMBDA i :
         IF i = 0 THEN Return(w1, JNull)
         ELSE Return(w1, JInt(int(w1.ret.v[i][1])))))

\* the data of set_group: a lights value goes as a list of strings
GroupPayload(parameter, value, transitiontime) ==
    Payload(parameter,
            IF parameter = "lights" /\ value.k \in {"list", "int"}
            THEN LET items == IF value.k = "int" THEN <<value>> ELSE value.v
                 IN JList([i \in 1..Len(items) |-> JStr(str(items[i]))])
            ELSE value,
            transitiontime)

\* the loop of set_group over group_id_array, from element i on
RECURSIVE set_group_loop(_, _, _, _, _, _)
set_group_loop(w, array, i, parameter, data, result) ==
    IF w.exc # NoExc THEN w
    ELSE IF i > Len(array) THEN Return(w, JList(result))
    ELSE Bind(array[i], LAMBDA group :
         Bind(IF group.k = "str" /\ ~isdigit(group.s)
              THEN get_group_id_by_name(w, group.s)
              ELSE Return(w, group), LAMBDA w1 :
         IF w1.exc # NoExc THEN w1
         ELSE IF w1.ret = JNull /\ group # JNull              \* continue
              THEN set_group_loop(w1, array, i + 1, parameter, data, result)
         ELSE Bind(Request(w1, "PUT",
                           IF parameter \in {"name", "lights"}
                           THEN <<"groups", str(w1.ret)>>
                           ELSE <<"groups", str(w1.ret), "action">>,
                           data), LAMBDA w2 :
              set_group_loop(w2, array, i + 1, parameter, data, Append(result, w2.ret)))))

set_group(w, group_id, parameter, value, transitiontime) ==
    set_group_loop(w, IF group_id.k = "list" THEN group_id.v ELSE <<group_id>>, 1,
                   parameter, GroupPayload(parameter, value, transitiontime), <<>>)

----------------------------------------------------------------------------
(* phue.light.Light *)

\* Light(bridge, light_id)
Light(light_id) ==
    [light_id |-> light_id, _name |-> JNull, _on |-> JNull, _brightness |-> JNull,
     _hue |-> JNull, _saturation |-> JNull, _xy |-> JNull, _colortemp |-> JNull,
     _effect |-> JNull, _alert |-> JNull, transitiontime |-> JNull,
     _reset_bri_after_on |-> JNull]

\* the writable properties, the state key each one reads and writes, and the
\* field that caches it
Props == {"on", "brightness", "hue", "saturation", "xy", "colortemp", "effect", "alert"}
KeyOf == [p \in Props |->
            CASE p = "brightness" -> "bri"
              [] p = "saturation" -> "sat"
              [] p = "colortemp" -> "ct"
              [] OTHER -> p]
FieldOf == [p \in Props |->
            CASE p = "on" -> "_on"
              [] p = "brightness" -> "_brightness"
              [] p = "hue" -> "_hue"
              [] p = "saturation" -> "_saturation"
              [] p = "xy" -> "_xy"
              [] p = "colortemp" -> "_colortemp"
              [] p = "effect" -> "_effect"
              [] OTHER -> "_alert"]
\* the kinds isinstance accepts in each getter (a bool is an int)
KindsOf == [p \in Props |->
            CASE p = "on" -> {"bool"}
              [] p \in {"effect", "alert"} -> {"str"}
              [] p = "xy" -> {"tuple", "list"}
              [] OTHER -> {"int", "bool"}]

\* Light._get
Light_get(w, ref, parameter) == get_light(w, JInt(w.objs[ref].light_id), parameter)

\* variant: the restore flag is left to the on setter
Light_set_NoFlag(w, ref, parameter, value) ==
    set_light(w, JInt(w.objs[ref].light_id), parameter, value, w.objs[ref].transitiontime)

\* Light._set(parameter, value): the sticky transitiontime goes with it
Light_set(w, ref, parameter, value) ==
    Bind(w.objs[ref], LAMBDA m :
    set_light(IF m.transitiontime # JNull /\ parameter = "on" /\ value = False
              THEN [w EXCEPT !.objs[ref]._reset_bri_after_on = True]
              ELSE w,
              JInt(m.light_id), parameter, value, m.transitiontime))

\* the getter of property prop
Light_getter(w, ref, prop) ==
    Bind(Light_get(w, ref, KeyOf[prop]), LAMBDA w1 :
    Bind(w1.ret, LAMBDA x :
    Bind([w1 EXCEPT !.objs[ref][FieldOf[prop]] = x], LAMBDA w2 :
    IF w1.exc # NoExc THEN w1
    ELSE IF x = JNull THEN Raise(w2, AssertionError("Failed to get"))
    ELSE IF x.k \notin KindsOf[prop] THEN Raise(w2, AssertionError("Expected"))
    ELSE IF prop # "xy" THEN Return(w2, x)
    ELSE IF Len(x.v) # 2 THEN Raise(w2, AssertionError("Expected"))
    ELSE IF \E i \in 1..2 : x.v[i].k \notin {"int", "float"}
         THEN Raise(w2, AssertionError("Could not parse xy coordinates"))
    ELSE Bind(JTuple(<<float(x.v[1]), float(x.v[2])>>), LAMBDA xy_tuple :
         Return([w2 EXCEPT !.objs[ref]._xy = xy_tuple], xy_tuple)))))

\* variant: the write goes to the key named like the property
Light_store_and_set_PropKey(w, ref, prop, value) ==
    Light_set([w EXCEPT !.objs[ref][FieldOf[prop]] = value], ref, prop, value)

\* the setters that store the value and write it
Light_store_and_set(w, ref, prop, value) ==
    Light_set([w EXCEPT !.objs[ref][FieldOf[prop]] = value], ref, KeyOf[prop], value)

\* bool(x) for the values a cache field holds
Truthy(x) == x = True

\* variant: the restore flag is left set after the replay
Light_on_setter_KeepFlag(w, ref, value) ==
    Bind(w.objs[ref], LAMBDA m :
    Bind(Light_set(IF Truthy(m._on) /\ value = False
                   THEN [w EXCEPT !.objs[ref]._reset_bri_after_on =
                                      JBool(m.transitiontime # JNull)]
                   ELSE w,
                   ref, "on", value), LAMBDA w1 :
    Bind(w1.objs[ref], LAMBDA m1 :
    Bind(m1._on = False /\ value = True /\ m1._reset_bri_after_on = True, LAMBDA replay :
    Bind(IF w1.exc = NoExc /\ replay /\ m1._brightness # JNull
         THEN Light_store_and_set(w1, ref, "brightness", m1._brightness)
         ELSE w1, LAMBDA w2 :
    IF w2.exc # NoExc THEN w2
    ELSE Return([w2 EXCEPT !.objs[ref]._on = value], JNull))))))

\* the on setter
Light_on_setter(w, ref, value) ==
    Bind(w.objs[ref], LAMBDA m :
    Bind(Light_set(IF Truthy(m._on) /\ value = False
                   THEN [w EXCEPT !.objs[ref]._reset_bri_after_on =
                                      JBool(m.transitiontime # JNull)]
                   ELSE w,
                   ref, "on", value), LAMBDA w1 :
    Bind(w1.objs[ref], LAMBDA m1 :
    Bind(m1._on = False /\ value = True /\ m1._reset_bri_after_on = True, LAMBDA replay :
    Bind(IF w1.exc = NoExc /\ replay /\ m1._brightness # JNull
         THEN Light_store_and_set(w1, ref, "brightness", m1._brightness)
         ELSE w1, LAMBDA w2 :
    IF w2.exc # NoExc THEN w2
    ELSE Return([w2 EXCEPT !.objs[ref]._reset_bri_after_on = IF replay THEN False ELSE @,
                           !.objs[ref]._on = value], JNull))))))

\* int(value) in the hue setter
int_trunc(x) == IF x.k = "float" THEN JInt(x.v[1] \div 10) ELSE x

\* the setter of property prop
Light_setter(w, ref, prop, value) ==
    Bind(CASE prop = "on" -> Light_on_setter(w, ref, value)
           [] prop = "hue" -> Light_store_and_set(w, ref, prop, int_trunc(value))
           [] prop = "alert" ->
                Light_store_and_set(w, ref, prop,
                                    IF value = JNull THEN JStr("none") ELSE value)
           [] OTHER -> Light_store_and_set(w, ref, prop, value), LAMBDA w1 :
    IF w1.exc # NoExc THEN w1 ELSE Return(w1, JNull))

\* the name getter
Light_name_getter(w, ref) ==
    Bind(Light_get(w, ref, "name"), LAMBDA w1 :
    IF w1.exc # NoExc THEN w1
    ELSE IF w1.ret.k # "str" THEN Raise(w1, AssertionError("Expected str for name"))
    ELSE Return([w1 EXCEPT !.objs[ref]._name = w1.ret], w1.ret))

\* the name setter
Light_name_setter(w, ref, value) ==
    Bind(Light_name_getter(w, ref), LAMBDA w1 :
    IF w1.exc # NoExc THEN w1
    ELSE
    Bind(w1.ret, LAMBDA old_name :
    Bind(Light_set([w1 EXCEPT !.objs[ref]._name = value], ref, "name", value), LAMBDA w2 :
    IF w2.exc # NoExc THEN w2
    ELSE
    Bind(Light_name_getter(w2, ref), LAMBDA w3 :
    IF w3.exc # NoExc THEN w3
    ELSE
    Bind([w3 EXCEPT !.by_name = Put(@, w3.ret.s, ref)], LAMBDA w4 :
    IF \A i \in 1..Len(w4.by_name) : w4.by_name[i][1] # old_name.s
    THEN Raise(w4, KeyError(old_name.s))
    ELSE Return([w4 EXCEPT !.by_name = Del(@, old_name.s)], JNull))))))

----------------------------------------------------------------------------
(* The light caches of the Bridge *)

\* a reference to the Light object objs[r]
Ref(r) == [k |-> "ref", s |-> "", v |-> <<r>>]

\* variant: the keys in the order they arrived
sorted_Arrival(keys) == keys

\* sorted(keys) of integer keys
sorted(keys) == SortSeq(keys, LAMBDA a, b : a < b)

\* the loop that fills the caches from the listing, from entry i on
RECURSIVE FillCaches(_, _, _)
FillCaches(w, lights, i) ==
    IF i > Len(lights.v) THEN w
    ELSE Bind(int(lights.v[i][1]), LAMBDA light_id :
         Bind(Len(w.objs) + 1, LAMBDA ref :
         FillCaches([w EXCEPT !.objs = Append(@, Light(light_id)),
                              !.by_id = Put(@, light_id, ref),
                              !.by_name = Put(@, NameOf(lights.v[i][2]).s, ref)],
                    lights, i + 1)))

Modes == {"list", "id", "name"}

\* variant: the listing is fetched by every call
get_light_objects_AlwaysList(w, mode) ==
    Bind(Request(w, "GET", <<"lights">>, JNull), LAMBDA w1 :
    Bind(IF w1.exc # NoExc THEN w1
         ELSE IF w1.ret.k # "obj"
              THEN Raise(w1, TypeError("int() argument must be a string"))
         ELSE FillCaches(w1, w1.ret, 1), LAMBDA w2 :
    Bind(sorted([i \in 1..Len(w2.by_id) |-> w2.by_id[i][1]]), LAMBDA ids :
    IF w2.exc # NoExc THEN w2
    ELSE CASE mode = "id" ->
                Return(w2, JObj([i \in 1..Len(w2.by_id) |->
                                    <<w2.by_id[i][1], Ref(w2.by_id[i][2])>>]))
           [] mode = "name" ->
                Return(w2, JObj([i \in 1..Len(w2.by_name) |->
                                    <<w2.by_name[i][1], Ref(w2.by_name[i][2])>>]))
           [] mode = "list" ->
                Return(w2, JList([i \in 1..Len(ids) |-> Ref(Get([v |-> w2.by_id], ids[i]))]))
           [] OTHER -> Raise(w2, [cls |-> "ValueError", id |-> 0, msg |-> "Invalid mode"]))))

get_light_objects(w, mode) ==
    Bind(IF w.by_id = <<>> THEN Request(w, "GET", <<"lights">>, JNull) ELSE w, LAMBDA w1 :
    Bind(IF w.by_id # <<>> THEN w
         ELSE IF w1.exc # NoExc THEN w1
         ELSE IF w1.ret.k # "obj"
              THEN Raise(w1, TypeError("int() argument must be a string"))
         ELSE FillCaches(w1, w1.ret, 1), LAMBDA w2 :
    Bind(sorted([i \in 1..Len(w2.by_id) |-> w2.by_id[i][1]]), LAMBDA ids :
    IF w2.exc # NoExc THEN w2
    ELSE CASE mode = "id" ->
                Return(w2, JObj([i \in 1..Len(w2.by_id) |->
                                    <<w2.by_id[i][1], Ref(w2.by_id[i][2])>>]))
           [] mode = "name" ->
                Return(w2, JObj([i \in 1..Len(w2.by_name) |->
                                    <<w2.by_name[i][1], Ref(w2.by_name[i][2])>>]))
           [] mode = "list" ->
                Return(w2, JList([i \in 1..Len(ids) |-> Ref(Get([v |-> w2.by_id], ids[i]))]))
           [] OTHER -> Raise(w2, [cls |-> "ValueError", id |-> 0, msg |-> "Invalid mode"]))))

\* the loop of Group.lights: a new Light object for each listed id, from the
\* i-th on; the caches of the Bridge are not touched
RECURSIVE NewLights(_, _, _, _)
NewLights(w, ids, i, made) ==
    IF i > Len(ids.v) THEN Return(w, JList(made))
    ELSE NewLights([w EXCEPT !.objs = Append(@, Light(int(str(ids.v[i]))))], ids, i + 1,
                   Append(made, Ref(Len(w.objs) + 1)))

\* bridge[key]
getitem(w, key) ==
    Bind(IF w.by_id = <<>> THEN get_light_objects(w, "id") ELSE w, LAMBDA w1 :
    Bind(IF key.k = "int" THEN w1.by_id ELSE w1.by_name, LAMBDA d :
    Bind(IF key.k = "int" THEN key.v[1] ELSE key.s, LAMBDA x :
    IF w1.exc # NoExc THEN w1
    ELSE IF \E i \in 1..Len(d) : d[i][1] = x
         THEN Return(w1, Ref(Get([v |-> d], x)))
         ELSE Raise(w1, KeyError("Not a valid key")))))

----------------------------------------------------------------------------
(* Groups and scenes: Bridge.groups, Bridge.scenes, run_scene *)

\* get_group(group_id, parameter) for a numeric group_id
get_group(w, group_id, parameter) ==
    Bind(Request(w, "GET", <<"groups", str(group_id)>>, JNull), LAMBDA w1 :
    Bind(w1.ret, LAMBDA doc :
    Bind(IF parameter \in {"any_on", "all_on"} THEN "state" ELSE "action", LAMBDA sub :
    IF w1.exc # NoExc THEN w1
    ELSE IF parameter = None THEN w1
    ELSE IF doc.k # "obj" THEN Raise(w1, TypeError("list indices must be integers"))
    ELSE IF parameter \in {"name", "lights"}
         THEN IF HasKey(doc, parameter) THEN Return(w1, Get(doc, parameter))
              ELSE Raise(w1, KeyError(parameter))
    ELSE IF HasKey(doc, sub) /\ HasKey(Get(doc, sub), parameter)
         THEN Return(w1, Get(Get(doc, sub), parameter))
         ELSE Raise(w1, KeyError(parameter)))))

\* Group.lights, read through get_group
Group_lights(w, group_id) ==
    Bind(get_group(w, JInt(group_id), "lights"), LAMBDA w1 :
    IF w1.exc # NoExc THEN w1
    ELSE IF w1.ret.k # "list" THEN Raise(w1, TypeError("object is not iterable"))
    ELSE NewLights(w1, w1.ret, 1, <<>>))

\* Group.name, read through get_group
Group_name_getter(w, group_id) ==
    Bind(get_group(w, JInt(group_id), "name"), LAMBDA w1 :
    IF w1.exc # NoExc THEN w1
    ELSE IF w1.ret.k # "str" THEN Raise(w1, AssertionError("Expected str for name"))
    ELSE w1)

\* [x for x in self.groups if x.name == group_name]: the group ids, from the
\* i-th key of the listing on; found holds those taken so far
RECURSIVE GroupsNamed(_, _, _, _, _)
GroupsNamed(w, listing, i, group_name, found) ==
    IF w.exc # NoExc THEN w
    ELSE IF i > Len(listing.v) THEN Return(w, JList(found))
    ELSE Bind(int(listing.v[i][1]), LAMBDA group_id :
         Bind(Group_name_getter(w, group_id), LAMBDA w1 :
         GroupsNamed(w1, listing, i + 1, group_name,
                     IF w1.exc = NoExc /\ w1.ret = JStr(group_name)
                     THEN Append(found, JInt(group_id)) ELSE found)))

\* variant: the lights of a scene in the order of the listing
Scene_AsListed(sid, doc) ==
    [scene_id |-> sid,
     name |-> IF HasKey(doc, "name") THEN Get(doc, "name").s ELSE "",
     lights |-> IF HasKey(doc, "lights")
                THEN [i \in 1..Len(Get(doc, "lights").v) |-> int(Get(doc, "lights").v[i].s)]
                ELSE <<>>]

\* Scene(sid, **doc)
Scene(sid, doc) ==
    [scene_id |-> sid,
     name |-> IF HasKey(doc, "name") THEN Get(doc, "name").s ELSE "",
     lights |-> IF HasKey(doc, "lights")
                THEN sorted([i \in 1..Len(Get(doc, "lights").v) |->
                                int(Get(doc, "lights").v[i].s)])
                ELSE <<>>]

activate_scene(w, group_id, scene_id, transition_time) ==
    Request(w, "PUT", <<"groups", str(JInt(group_id)), "action">>,
            JObj(<< <<"scene", JStr(scene_id)>>, <<"transitiontime", transition_time>> >>))

\* the loop over the scenes of the name, from the i-th on
RECURSIVE FirstSceneOfGroup(_, _, _, _, _, _)
FirstSceneOfGroup(w, scenes, i, group_id, group_lights, transition_time) ==
    IF i > Len(scenes) THEN Return(w, False)
    ELSE IF group_lights = scenes[i].lights
         THEN Bind(activate_scene(w, group_id, scenes[i].scene_id, transition_time),
                   LAMBDA w1 : IF w1.exc # NoExc THEN w1 ELSE Return(w1, True))
    ELSE FirstSceneOfGroup(w, scenes, i + 1, group_id, group_lights, transition_time)

\* group_lights = sorted([x.light_id for x in group.lights]), then the loop
ByGroupLights(w, group, scenes, transition_time) ==
    Bind(get_group(w, group, "lights"), LAMBDA w1 :                  \* group.lights
    IF w1.exc # NoExc THEN w1
    ELSE FirstSceneOfGroup(w1, scenes, 1, group.v[1],
                           sorted([i \in 1..Len(w1.ret.v) |-> int(w1.ret.v[i].s)]),
                           transition_time))

\* variant: a single scene of the name must have the group's lights too
PickScene_AlwaysCompare(w, groups, scenes, transition_time) ==
    IF Len(groups) # 1 THEN Return(w, False)
    ELSE IF Len(scenes) = 0 THEN Return(w, False)
    ELSE ByGroupLights(w, groups[1], scenes, transition_time)

\* variant: no group or no scene of the name is an error
PickScene_RaiseIfNone(w, groups, scenes, transition_time) ==
    IF Len(groups) # 1 THEN Return(w, False)
    ELSE IF Len(scenes) = 0 THEN Raise(w, KeyError("scene"))
    ELSE IF Len(scenes) = 1
         THEN Bind(activate_scene(w, groups[1].v[1], scenes[1].scene_id, transition_time),
                   LAMBDA w1 : IF w1.exc # NoExc THEN w1 ELSE Return(w1, True))
    ELSE ByGroupLights(w, groups[1], scenes, transition_time)

\* run_scene once both comprehensions are evaluated
PickScene(w, groups, scenes, transition_time) ==
    IF Len(groups) # 1 THEN Return(w, False)
    ELSE IF Len(scenes) = 0 THEN Return(w, False)
    ELSE IF Len(scenes) = 1
         THEN Bind(activate_scene(w, groups[1].v[1], scenes[1].scene_id, transition_time),
                   LAMBDA w1 : IF w1.exc # NoExc THEN w1 ELSE Return(w1, True))
    ELSE ByGroupLights(w, groups[1], scenes, transition_time)

run_scene(w, group_name, scene_name, transition_time) ==
    Bind(Request(w, "GET", <<"groups">>, JNull), LAMBDA w1 :             \* self.groups
    Bind(IF w1.exc # NoExc THEN w1
         ELSE IF w1.ret.k # "obj"
              THEN Raise(w1, [cls |-> "AttributeError", id |-> 0, msg |-> "keys"])
         ELSE GroupsNamed(w1, w1.ret, 1, group_name, <<>>), LAMBDA w2 :
    Bind(Request(w2, "GET", <<"scenes">>, JNull), LAMBDA w3 :            \* self.scenes
    IF w2.exc # NoExc THEN w2
    ELSE IF w3.exc # NoExc THEN w3
    ELSE IF w3.ret.k # "obj"
         THEN Raise(w3, [cls |-> "AttributeError", id |-> 0, msg |-> "items"])
    ELSE PickScene(w3, w2.ret.v,
                   SelectSeq([i \in 1..Len(w3.ret.v) |-> Scene(w3.ret.v[i][1], w3.ret.v[i][2])],
                             LAMBDA x : x.name = scene_name),
                   transition_time))))

\* delete_scene: whatever the request raises is logged and None is returned
delete_scene(w, scene_id) ==
    Bind(Request(w, "DELETE", <<"scenes", scene_id>>, JNull), LAMBDA w1 :
    IF w1.exc # NoExc THEN Return([w1 EXCEPT !.exc = NoExc], JNull) ELSE w1)

----------------------------------------------------------------------------
(* Sensors: Bridge.get_sensor, set_sensor_content, phue.sensor *)

\* a == b between two values: bool, int and float compare as numbers
IsNumber(x) == x.k \in {"bool", "int", "float"}
Tenths(x) ==
    CASE x.k = "bool" -> IF x.v[1] THEN 10 ELSE 0
      [] x.k = "int" -> 10 * x.v[1]
      [] OTHER -> x.v[1]
PyEq(a, b) == IF IsNumber(a) /\ IsNumber(b) THEN Tenths(a) = Tenths(b) ELSE a = b

\* get_sensor(sensor_id, parameter) for a numeric sensor_id
get_sensor(w, sensor_id, parameter) ==
    Bind(Request(w, "GET", <<"sensors", str(sensor_id)>>, JNull), LAMBDA w1 :
    Bind(w1.ret, LAMBDA data :
    IF w1.exc # NoExc THEN w1
    ELSE IF data.k = "list" THEN Return(w1, JNull)
    ELSE IF parameter = None THEN w1
    ELSE IF HasKey(data, parameter) THEN Return(w1, Get(data, parameter))
    ELSE Raise(w1, KeyError(parameter))))

\* variant: the payload goes out as the caller passed it
SensorPayload_AsPassed(parameter, value) ==
    IF parameter.k = "obj" THEN parameter ELSE JObj(<< <<parameter.s, value>> >>)

\* data = parameter.copy() or {parameter: value}, without lastupdated
SensorPayload(parameter, value) ==
    JObj(Del(IF parameter.k = "obj" THEN parameter.v ELSE << <<parameter.s, value>> >>,
             "lastupdated"))

\* parameter is a dict (an object) or the name of one parameter (a string)
set_sensor_content(w, sensor_id, parameter, value, structure) ==
    IF structure # "state" /\ structure # "config" THEN Return(w, False)
    ELSE Request(w, "PUT", <<"sensors", str(sensor_id), structure>>,
                 SensorPayload(parameter, value))

set_sensor_state(w, sensor_id, parameter, value) ==
    set_sensor_content(w, sensor_id, parameter, value, "state")

set_sensor_config(w, sensor_id, parameter, value) ==
    set_sensor_content(w, sensor_id, parameter, value, "config")

\* Sensor(bridge, sensor_id): _state and _config hold the data of the two
\* wrappers, as members in insertion order
Sensor(sensor_id) ==
    [sensor_id |-> sensor_id, _raw_data |-> JNull, _name |-> JNull, _type |-> JNull,
     _state |-> <<>>, _config |-> <<>>]

\* dict.get(key) and dict.get(key, {})
GetOr(obj, key, default) == IF HasKey(obj, key) THEN Get(obj, key) ELSE default

\* the members of old overwritten and extended by those of new, from the i-th on
RECURSIVE Merged(_, _, _)
Merged(old, new, i) ==
    IF i > Len(new) THEN old ELSE Merged(Put(old, new[i][1], new[i][2]), new, i + 1)

\* variant: the fetched state and config are merged into the cached ones
Sensor_refresh_Merge(w, ref) ==
    Bind(get_sensor(w, JInt(w.objs[ref].sensor_id), None), LAMBDA w1 :
    Bind(w1.ret, LAMBDA raw :
    IF w1.exc # NoExc THEN w1
    ELSE IF raw.k # "obj"
         THEN Raise([w1 EXCEPT !.objs[ref]._raw_data = raw],
                    TypeError("Expected dict from bridge.get_sensor"))
    ELSE Return([w1 EXCEPT !.objs[ref] =
                    [@ EXCEPT !._raw_data = raw,
                              !._name = GetOr(raw, "name", JNull),
                              !._type = GetOr(raw, "type", JNull),
                              !._state = Merged(@, GetOr(raw, "state", JObj(<<>>)).v, 1),
                              !._config = Merged(@, GetOr(raw, "config", JObj(<<>>)).v, 1)]],
                JNull)))

\* Sensor.refresh
Sensor_refresh(w, ref) ==
    Bind(get_sensor(w, JInt(w.objs[ref].sensor_id), None), LAMBDA w1 :
    Bind(w1.ret, LAMBDA raw :
    IF w1.exc # NoExc THEN w1
    ELSE IF raw.k # "obj"
         THEN Raise([w1 EXCEPT !.objs[ref]._raw_data = raw],
                    TypeError("Expected dict from bridge.get_sensor"))
    ELSE Return([w1 EXCEPT !.objs[ref] =
                    [@ EXCEPT !._raw_data = raw,
                              !._name = GetOr(raw, "name", JNull),
                              !._type = GetOr(raw, "type", JNull),
                              !._state = GetOr(raw, "state", JObj(<<>>)).v,
                              !._config = GetOr(raw, "config", JObj(<<>>)).v]],
                JNull)))

\* variant: every access fetches the document
Sensor_ensure_data_Always(w, ref) == Sensor_refresh(w, ref)

\* Sensor._ensure_data
Sensor_ensure_data(w, ref) ==
    IF w.objs[ref]._raw_data = JNull THEN Sensor_refresh(w, ref) ELSE Return(w, JNull)

\* the read-only properties and the name getter; state and config give the
\* wrapper, shown by what it holds
Sensor_getter(w, ref, prop) ==
    Bind(Sensor_ensure_data(w, ref), LAMBDA w1 :
    Bind(w1.objs[ref], LAMBDA m :
    IF w1.exc # NoExc THEN w1
    ELSE Return(w1, CASE prop = "name" ->
                            IF m._name = JNull \/ m._name = JStr("")
                            THEN JStr("Sensor " \o str(JInt(m.sensor_id)))
                            ELSE m._name
                      [] prop = "type" -> m._type
                      [] prop = "state" -> JObj(m._state)
                      [] OTHER -> JObj(m._config))))

\* the cache field behind sensor.state and sensor.config
WrapperField == [structure \in {"state", "config"} |->
                    IF structure = "state" THEN "_state" ELSE "_config"]

\* variant: every assignment is written, equal to the cached value or not
Wrapper_setitem_AlwaysWrite(w, ref, structure, key, value) ==
    Bind(set_sensor_content([w EXCEPT !.objs[ref][WrapperField[structure]] =
                                         Put(@, key, value)],
                            JInt(w.objs[ref].sensor_id),
                            JObj(<< <<key, value>> >>), JNull, structure), LAMBDA w1 :
    Return([w1 EXCEPT !.exc = NoExc], JNull))

\* _SensorDataWrapper.__setitem__: a failed bridge update is logged and dropped
Wrapper_setitem(w, ref, structure, key, value) ==
    Bind(w.objs[ref][WrapperField[structure]], LAMBDA data :
    IF HasKey([v |-> data], key) /\ PyEq(Get([v |-> data], key), value) THEN Return(w, JNull)
    ELSE Bind(set_sensor_content([w EXCEPT !.objs[ref][WrapperField[structure]] =
                                              Put(data, key, value)],
                                 JInt(w.objs[ref].sensor_id),
                                 JObj(<< <<key, value>> >>), JNull, structure), LAMBDA w1 :
         Return([w1 EXCEPT !.exc = NoExc], JNull)))

\* _SensorDataWrapper.update: the loop over temp_dict.items(), from item i on
RECURSIVE Wrapper_update(_, _, _, _, _)
Wrapper_update(w, ref, structure, items, i) ==
    IF w.exc # NoExc THEN w
    ELSE IF i > Len(items) THEN Return(w, JNull)
    ELSE Wrapper_update(Wrapper_setitem(w, ref, structure, items[i][1], items[i][2]),
                        ref, structure, items, i + 1)

\* sensor.state[key] = value, sensor.config[key] = value
Sensor_assign(w, ref, structure, key, value) ==
    Bind(Sensor_ensure_data(w, ref), LAMBDA w1 :
    IF w1.exc # NoExc THEN w1 ELSE Wrapper_setitem(w1, ref, structure, key, value))

\* sensor.state.update(items), sensor.config.update(items)
Sensor_update(w, ref, structure, items) ==
    Bind(Sensor_ensure_data(w, ref), LAMBDA w1 :
    IF w1.exc # NoExc THEN w1 ELSE Wrapper_update(w1, ref, structure, items, 1))


----------------------------------------------------------------------------
(* The sensor caches of the Bridge *)

\* the loop that fills the sensor caches from the listing, from entry i on
RECURSIVE FillSensorCaches(_, _, _)
FillSensorCaches(w, sensors, i) ==
    IF i > Len(sensors.v) THEN w
    ELSE Bind(int(sensors.v[i][1]), LAMBDA sensor_id :
         Bind(Len(w.objs) + 1, LAMBDA ref :
         FillSensorCaches([w EXCEPT !.objs = Append(@, Sensor(sensor_id)),
                                    !.sensors_by_id = Put(@, sensor_id, ref),
                                    !.sensors_by_name =
                                        Put(@, NameOf(sensors.v[i][2]).s, ref)],
                          sensors, i + 1)))

\* get_sensor_objects(mode): the listing is fetched when sensors_by_id is empty
get_sensor_objects(w, mode) ==
    Bind(IF w.sensors_by_id = <<>> THEN Request(w, "GET", <<"sensors">>, JNull) ELSE w,
         LAMBDA w1 :
    Bind(IF w.sensors_by_id # <<>> THEN w
         ELSE IF w1.exc # NoExc THEN w1
         ELSE IF w1.ret.k # "obj"
              THEN Raise(w1, TypeError("int() argument must be a string"))
         ELSE FillSensorCaches(w1, w1.ret, 1), LAMBDA w2 :
    IF w2.exc # NoExc THEN w2
    ELSE CASE mode = "id" ->
                Return(w2, JObj([i \in 1..Len(w2.sensors_by_id) |->
                                    <<w2.sensors_by_id[i][1], Ref(w2.sensors_by_id[i][2])>>]))
           [] mode = "name" ->
                Return(w2, JObj([i \in 1..Len(w2.sensors_by_name) |->
                                    <<w2.sensors_by_name[i][1],
                                      Ref(w2.sensors_by_name[i][2])>>]))
           [] mode = "list" ->
                Return(w2, JList([i \in 1..Len(w2.sensors_by_id) |->
                                    Ref(w2.sensors_by_id[i][2])]))
           [] OTHER -> Return(w2, JNull)))

\* the body create_sensor posts; state and config go in when they are not empty
SensorData(name, modelid, swversion, sensor_type, uniqueid, manufacturername, state, config, recycle) ==
    JObj(<< <<"name", name>>, <<"modelid", modelid>>, <<"swversion", swversion>>,
            <<"type", sensor_type>>, <<"uniqueid", uniqueid>>,
            <<"manufacturername", manufacturername>>, <<"recycle", recycle>> >>
         \o (IF state.v # <<>> THEN << <<"state", state>> >> ELSE <<>>)
         \o (IF config.v # <<>> THEN << <<"config", config>> >> ELSE <<>>))

\* create_sensor(...): returns (new_id, None) or (None, error)
create_sensor(w, name, modelid, swversion, sensor_type, uniqueid, manufacturername, state, config, recycle) ==
    Bind(Request(w, "POST", <<"sensors">>,
                 SensorData(name, modelid, swversion, sensor_type, uniqueid,
                            manufacturername, state, config, recycle)), LAMBDA w1 :
    Bind(w1.ret, LAMBDA result :
    IF w1.exc # NoExc THEN w1
    ELSE IF HasKey(result.v[1], "success")
    THEN Bind(int(Get(Get(result.v[1], "success"), "id").s), LAMBDA new_id :
         Bind(Len(w1.objs) + 1, LAMBDA ref :
         Return([w1 EXCEPT !.objs = Append(@, Sensor(new_id)),
                           !.sensors_by_id = Put(@, new_id, ref),
                           !.sensors_by_name = Put(@, name.s, ref)],
                JTuple(<<JInt(new_id), JNull>>))))
    ELSE Return(w1, JTuple(<<JNull, result.v[1]>>))))

\* set_sensor(sensor_id, parameter, value)
set_sensor(w, sensor_id, parameter, value) ==
    Request(w, "PUT", <<"sensors", str(sensor_id)>>,
            IF parameter.k = "obj" THEN parameter
            ELSE JObj(<< <<parameter.s, value>> >>))

\* delete_sensor(sensor_id): a KeyError raised on the way is answered with None
delete_sensor(w, sensor_id) ==
    IF ~HasKey([v |-> w.sensors_by_id], sensor_id.v[1]) THEN Return(w, JNull)
    ELSE
    Bind(Get([v |-> w.sensors_by_id], sensor_id.v[1]), LAMBDA ref :
    Bind(Sensor_getter(w, ref, "name"), LAMBDA w1 :
    IF w1.exc # NoExc THEN w1
    ELSE IF ~HasKey([v |-> w1.sensors_by_name], w1.ret.s) THEN Return(w1, JNull)
    ELSE Request([w1 EXCEPT !.sensors_by_name = Del(@, w1.ret.s),
                            !.sensors_by_id = Del(@, sensor_id.v[1])],
                 "DELETE", <<"sensors", str(sensor_id)>>, JNull)))

\* variant: the cache and the mapping are updated before the write
Sensor_name_setter_CacheFirst(w, ref, value) ==
    IF value.k # "str" THEN Raise(w, TypeError("Sensor name must be a string"))
    ELSE
    Bind(Sensor_getter(w, ref, "name"), LAMBDA w1 :
    Bind(w1.ret, LAMBDA old_name :
    IF w1.exc # NoExc THEN w1
    ELSE IF old_name = value THEN Return(w1, JNull)
    ELSE
    Bind([w1 EXCEPT !.objs[ref]._name = value,
                    !.objs[ref]._raw_data =
                        IF @.k = "obj" /\ @.v # <<>>
                        THEN JObj(Put(@.v, "name", value)) ELSE @,
                    !.sensors_by_name = Put(Del(@, old_name.s), value.s, ref)],
         LAMBDA w2 :
    Bind(set_sensor(w2, JInt(w2.objs[ref].sensor_id),
                    JObj(<< <<"name", value>> >>), JNull), LAMBDA w3 :
    IF w3.exc # NoExc THEN w3 ELSE Return(w3, JNull)))))

\* the name setter of Sensor
Sensor_name_setter(w, ref, value) ==
    IF value.k # "str" THEN Raise(w, TypeError("Sensor name must be a string"))
    ELSE
    Bind(Sensor_getter(w, ref, "name"), LAMBDA w1 :
    Bind(w1.ret, LAMBDA old_name :
    IF w1.exc # NoExc THEN w1
    ELSE IF old_name = value THEN Return(w1, JNull)
    ELSE
    Bind(set_sensor(w1, JInt(w1.objs[ref].sensor_id),
                    JObj(<< <<"name", value>> >>), JNull), LAMBDA w2 :
    IF w2.exc # NoExc THEN w2
    ELSE Return([w2 EXCEPT !.objs[ref]._name = value,
                           !.objs[ref]._raw_data =
                               IF @.k = "obj" /\ @.v # <<>>
                               THEN JObj(Put(@.v, "name", value)) ELSE @,
                           !.sensors_by_name = Put(Del(@, old_name.s), value.s, ref)],
                JNull))))

----------------------------------------------------------------------------
(* One Light mirror and the calls made on it *)

MaxOps == 4

\* a Session built with both arguments: Bridge("10.0.0.1", "usr")
Ready ==
    /\ file = Absent
    /\ alive = TRUE
    /\ sess = [ip |-> "10.0.0.1", username |-> "usr"]
    /\ op = "init"
    /\ pc = "idle"
    /\ exc = NoExc
    /\ io = NoIO
    /\ args = [ip |-> "10.0.0.1", username |-> "usr", save_config |-> "omitted"]
    /\ env = [disc |-> NoDisc, post |-> NoPost]
    /\ pre = [file |-> Absent, ip |-> "10.0.0.1", username |-> "usr", reg |-> NoReg]
    /\ lastReg = NoReg
    /\ calls = 0

\* the state object of a light
LightState(on, bri) ==
    JObj(<< <<"on", JBool(on)>>, <<"bri", JInt(bri)>>, <<"hue", JInt(0)>>,
            <<"sat", JInt(0)>>, <<"xy", JList(<<JFloat(5), JFloat(5)>>)>>,
            <<"ct", JInt(300)>>, <<"effect", JStr("none")>>,
            <<"alert", JStr("none")>> >>)

TwoLights ==
    [NoHub EXCEPT !.lights = << Resource("1", "Kitchen", LightState(TRUE, 254), <<>>),
                                Resource("2", "Hall", LightState(FALSE, 1), <<>>) >>]

\* the values written to each property
Written == [p \in Props |->
            CASE p = "on" -> {True, False}
              [] p = "brightness" -> {JInt(200)}
              [] p = "hue" -> {JInt(5000)}
              [] p = "saturation" -> {JInt(120)}
              [] p = "xy" -> {JTuple(<<JFloat(3), JFloat(4)>>)}
              [] p = "colortemp" -> {JInt(600)}
              [] p = "effect" -> {JStr("colorloop")}
              [] OTHER -> {JStr("select"), JNull}]
TransitionTimes == {JNull, JInt(10)}
\* the transport of this model answers every request
LightPlans == {<<>>}

\* the record a call starts from
World(plan) ==
    [hub |-> hub, objs |-> objs, by_id |-> lights_by_id, by_name |-> lights_by_name,
     sensors_by_id |-> sensors_by_id, sensors_by_name |-> sensors_by_name,
     reqs |-> <<>>, plan |-> plan, exc |-> NoExc, ret |-> JNull]

\* the state after a call that ended in w
Commit(name, ref, prop, value, w) ==
    /\ hub' = w.hub
    /\ objs' = w.objs
    /\ lights_by_id' = w.by_id
    /\ lights_by_name' = w.by_name
    /\ sensors_by_id' = w.sensors_by_id
    /\ sensors_by_name' = w.sensors_by_name
    /\ call' = [name |-> name, ref |-> ref, prop |-> prop, value |-> value,
                ret |-> w.ret, exc |-> w.exc, reqs |-> w.reqs, plan |-> w.plan,
                before |-> [hub |-> hub, objs |-> objs, by_id |-> lights_by_id,
                            by_name |-> lights_by_name,
                            sensors_by_id |-> sensors_by_id,
                            sensors_by_name |-> sensors_by_name]]
    /\ prev' = call
    /\ calls' = calls + 1
    /\ UNCHANGED connVars

InitLight ==
    /\ Ready
    /\ hub = TwoLights
    /\ lights_by_id = <<>>
    /\ lights_by_name = <<>>
    /\ sensors_by_id = <<>>
    /\ sensors_by_name = <<>>
    /\ \E id \in {1, 2} : objs = <<Light(id)>>
    /\ call = NoCall
    /\ prev = NoCall

\* light.<prop> = value
LightWrite ==
    \E prop \in Props : \E value \in Written[prop] : \E plan \in LightPlans :
        /\ calls < MaxOps
        /\ Commit("set", 1, prop, value, Light_setter(World(plan), 1, prop, value))

\* light.<prop>
LightRead ==
    \E prop \in Props : \E plan \in LightPlans :
        /\ calls < MaxOps
        /\ Commit("get", 1, prop, JNull, Light_getter(World(plan), 1, prop))

\* light.transitiontime = t
LightTransition ==
    \E t \in TransitionTimes :
        /\ calls < MaxOps
        /\ Commit("transitiontime", 1, "transitiontime", t,
                  [World(<<>>) EXCEPT !.objs[1].transitiontime = t])

NextLight == LightWrite \/ LightRead \/ LightTransition
SpecLight == InitLight /\ [][NextLight]_vars

----------------------------------------------------------------------------
(* Properties of the Light mirror *)

\* the last two calls were a write of a property and a read of the same one,
\* and both returned
WroteThenRead ==
    /\ prev.name = "set" /\ prev.exc = NoExc
    /\ call.name = "get" /\ call.exc = NoExc
    /\ call.prop = prev.prop

\* C13: for any Light mirror and any writable property, writing a value and
\* reading the property back at once, the transport echoing what was written,
\* yields the written value.
C13_ReadBackWritten == WroteThenRead => call.ret = prev.value

\* C13 as it holds: the value read back is the written one, except that an
\* alert written as None reads back as "none".
C13_ReadBackAmended ==
    WroteThenRead =>
        call.ret = IF prev.prop = "alert" /\ prev.value = JNull
                   THEN JStr("none") ELSE prev.value

C13_Witness ==
    /\ WroteThenRead
    /\ call.prop = "xy"
    /\ objs[1].transitiontime # JNull
    /\ call.ret = JTuple(<<JFloat(3), JFloat(4)>>)

\* the writes of a call that carry a brightness
BriWrites(c) ==
    SelectSeq(c.reqs, LAMBDA q : q.rq.mode = "PUT" /\ HasKey(q.rq.data, "bri"))

\* the last two calls were on = False and on = True, both returned, with a
\* transitiontime configured and a brightness cached before the first
OffThenOn ==
    /\ prev.name = "set" /\ prev.prop = "on" /\ prev.value = False /\ prev.exc = NoExc
    /\ call.name = "set" /\ call.prop = "on" /\ call.value = True /\ call.exc = NoExc
    /\ prev.before.objs[1].transitiontime # JNull
    /\ prev.before.objs[1]._brightness # JNull

\* C14: with a transitiontime configured, on = False then on = True restores
\* the brightness cached just before the off write: the on write is followed
\* by exactly one brightness write, carrying that brightness, and the sequence
\* has no other brightness write.
C14_OffOnRestoresBrightness ==
    OffThenOn =>
        /\ BriWrites(prev) = <<>>
        /\ Len(call.reqs) = 2
        /\ HasKey(call.reqs[1].rq.data, "on")
        /\ BriWrites(call) = <<call.reqs[2]>>
        /\ Get(call.reqs[2].rq.data, "bri") = prev.before.objs[1]._brightness
        /\ call.reqs[2].rq.address = <<"lights", str(JInt(objs[1].light_id)), "state">>

C14_Witness ==
    /\ OffThenOn
    /\ prev.before.objs[1]._on = JNull
    /\ Len(BriWrites(call)) = 1

----------------------------------------------------------------------------
(* The light caches and the calls that fill and change them *)

\* the lights of the device, by id
KnownLights ==
    ("1" :> Resource("1", "Kitchen", LightState(TRUE, 254), <<>>))
    @@ ("2" :> Resource("2", "Hall", LightState(FALSE, 1), <<>>))
    @@ ("10" :> Resource("10", "Desk", LightState(TRUE, 100), <<>>))
\* the orders in which the listing delivers them
ListingOrders == {<<"1", "2", "10">>, <<"10", "2", "1">>, <<"2", "10", "1">>}
NewNames == {"Lamp", "Hall"}
ItemKeys == {JInt(10), JStr("Kitchen"), JStr("Lamp")}
\* how the bridge answers the three requests of a rename: it accepts the
\* write, or rejects it with an error-shaped body
RenamePlans == {<<>>, <<"ok", "error">>}

InitCache ==
    /\ Ready
    /\ \E order \in ListingOrders :
          hub = [NoHub EXCEPT !.lights = [i \in 1..Len(order) |-> KnownLights[order[i]]],
                              !.groups = <<Resource("1", "Den", LightState(FALSE, 1),
                                                    <<"2">>)>>]
    /\ lights_by_id = <<>>
    /\ lights_by_name = <<>>
    /\ sensors_by_id = <<>>
    /\ sensors_by_name = <<>>
    /\ objs = <<>>
    /\ call = NoCall
    /\ prev = NoCall

\* bridge.get_light_objects(mode)
GetLightObjects ==
    \E mode \in Modes :
        /\ calls < MaxOps
        /\ Commit("get_light_objects", 0, mode, JNull, get_light_objects(World(<<>>), mode))

\* bridge[key]
GetItem ==
    \E key \in ItemKeys :
        /\ calls < MaxOps
        /\ Commit("getitem", 0, "", key, getitem(World(<<>>), key))

\* light.name = value, on a Light object obtained from the Bridge
Rename ==
    \E ref \in 1..Len(objs) : \E value \in NewNames : \E plan \in RenamePlans :
        /\ calls < MaxOps
        /\ Commit("rename", ref, "name", JStr(value),
                  Light_name_setter(World(plan), ref, JStr(value)))

\* Group(bridge, 1).lights: Light objects built on demand
GroupLights ==
    /\ calls < MaxOps
    /\ Commit("group_lights", 0, "lights", JInt(1), Group_lights(World(<<>>), 1))

NextCache == GetLightObjects \/ GetItem \/ Rename \/ GroupLights
SpecCache == InitCache /\ [][NextCache]_vars

\* the name the device has for the light of object ref, in hub h
HubName(h, light_id) ==
    LET i == CHOOSE j \in 1..Len(h.lights) : h.lights[j].id = str(JInt(light_id))
    IN h.lights[i].name

\* the Light objects a cache holds
Held(d) == {d[i][2] : i \in 1..Len(d)}

\* object ref is a value of the cache d
Cached(d, ref) == \E i \in 1..Len(d) : d[i][2] = ref

\* the last call was a rename through a cached Light to a name other than
\* its current one, and it returned
Renamed ==
    /\ call.name = "rename" /\ call.exc = NoExc
    /\ Cached(call.before.by_id, call.ref)
    /\ Cached(call.before.by_name, call.ref)
    /\ call.value.s # HubName(call.before.hub, objs[call.ref].light_id)

\* C15: for a Light held in the caches and a new name different from its
\* current name, after light.name = new the lights_by_name mapping has no
\* entry for the old name and maps the new name to that same Light object.
C15_RenameMovesEntry ==
    Renamed =>
        /\ ~HasKey([v |-> lights_by_name],
                   HubName(call.before.hub, objs[call.ref].light_id))
        /\ HasKey([v |-> lights_by_name], call.value.s)
        /\ Get([v |-> lights_by_name], call.value.s) = call.ref

\* the same, for the renames the bridge accepted
C15_AcceptedRename ==
    (Renamed /\ \A i \in 1..Len(call.reqs) : call.reqs[i].how = "ok")
        => C15_RenameMovesEntry

\* C16: get_light_objects("list") returns the cached Light objects in
\* ascending numeric light id, whatever the order of the listing, and each
\* listed light exactly once.
C16_ListSortedById ==
    (call.name = "get_light_objects" /\ call.prop = "list" /\ call.exc = NoExc) =>
        LET r == call.ret.v IN
        /\ \A i \in 1..Len(r) : Cached(lights_by_id, r[i].v[1])
        /\ \A i, j \in 1..Len(r) :
              i < j => objs[r[i].v[1]].light_id < objs[r[j].v[1]].light_id
        /\ {str(JInt(objs[r[i].v[1]].light_id)) : i \in 1..Len(r)}
              = {hub.lights[i].id : i \in 1..Len(hub.lights)}
        /\ Len(r) = Len(hub.lights)

C16_Witness ==
    /\ call.name = "get_light_objects" /\ call.prop = "list" /\ call.exc = NoExc
    /\ hub.lights[1].id = "10"
    /\ Len(call.reqs) = 1
    /\ Len(call.ret.v) = 3

----------------------------------------------------------------------------
(* set_light and set_group called on the Bridge with lists of ids *)

MaxSets == 2

KnownGroups ==
    << Resource("1", "Den", JObj(<< <<"on", False>>, <<"bri", JInt(1)>> >>), <<"1", "2">>),
       Resource("2", "Porch", JObj(<< <<"on", True>>, <<"bri", JInt(254)>> >>), <<"10">>) >>

LightTargets ==
    { JList(<<JInt(1), JStr("NonexistentName")>>),
      JList(<<JStr("Hall"), JInt(10)>>),
      JList(<<JStr("NonexistentName"), JStr("2")>>),
      JList(<<JInt(10), JInt(1), JStr("2")>>) }
LightSettings == { <<"bri", JInt(200)>>, <<"name", JStr("Lamp")>> }
GroupTargets == { JInt(1), JList(<<JStr("Den"), JStr("Nowhere"), JInt(2)>>) }
GroupSettings == { <<"on", True>>, <<"name", JStr("Yard")>> }
\* the transitiontime argument: omitted, or 2.5
TransitionArgs == {JNull, JFloat(25)}
SetPlans == {<<>>, <<"error">>, <<"ok", "error">>, <<"ok", "timeout">>}

InitSet ==
    /\ Ready
    /\ hub = [NoHub EXCEPT !.lights = <<KnownLights["1"], KnownLights["2"], KnownLights["10"]>>,
                           !.groups = KnownGroups]
    /\ lights_by_id = <<>>
    /\ lights_by_name = <<>>
    /\ sensors_by_id = <<>>
    /\ sensors_by_name = <<>>
    /\ objs = <<>>
    /\ call = NoCall
    /\ prev = NoCall

\* a call of the Bridge; value holds the arguments
CommitSet(name, target, setting, tt, w) ==
    /\ calls < MaxSets
    /\ Commit(name, 0, setting[1],
              JObj(<< <<"id", target>>, <<"value", setting[2]>>, <<"transitiontime", tt>> >>),
              w)

\* bridge.set_light(light_id, parameter, value, transitiontime)
SetLight ==
    \E target \in LightTargets : \E setting \in LightSettings :
    \E tt \in TransitionArgs : \E plan \in SetPlans :
        CommitSet("set_light", target, setting, tt,
                  set_light(World(plan), target, setting[1], setting[2], tt))

\* bridge.set_group(group_id, parameter, value, transitiontime)
SetGroup ==
    \E target \in GroupTargets : \E setting \in GroupSettings :
    \E tt \in TransitionArgs : \E plan \in SetPlans :
        CommitSet("set_group", target, setting, tt,
                  set_group(World(plan), target, setting[1], setting[2], tt))

NextSet == SetLight \/ SetGroup
SpecSet == InitSet /\ [][NextSet]_vars

----------------------------------------------------------------------------
(* Properties of set_light and set_group *)

\* the ids a call was given, as a sequence
Elements(c) ==
    LET target == Get(c.value, "id")
    IN IF target.k = "list" THEN target.v ELSE <<target>>

\* the writes of a call, in order
Puts(c) == SelectSeq(c.reqs, LAMBDA q : q.rq.mode = "PUT")

\* the transport raised nothing and every lookup was answered with a listing
AllAnswered(c) ==
    \A i \in 1..Len(c.reqs) :
        /\ c.reqs[i].how # "timeout"
        /\ c.reqs[i].rq.mode = "GET" => c.reqs[i].how = "ok"

\* the elements of a set_light call that are non-numeric names of no light
UnknownNames(c) ==
    {i \in 1..Len(Elements(c)) :
        LET e == Elements(c)[i] IN
        /\ e.k = "str" /\ ~isdigit(e.s)
        /\ \A j \in 1..Len(c.before.hub.lights) : c.before.hub.lights[j].name # e.s}

\* C17: set_light on a list of ids holding a non-numeric name that matches no
\* light issues no write for that element, does not raise, and issues the
\* write for every other element.
C17_UnknownNameSkipped ==
    (call.name = "set_light" /\ UnknownNames(call) # {} /\ AllAnswered(call)) =>
        /\ call.exc = NoExc
        /\ \A i \in UnknownNames(call) : \A j \in 1..Len(Puts(call)) :
              Puts(call)[j].rq.address[2] # Elements(call)[i].s
        /\ Len(Puts(call)) = Len(Elements(call)) - Cardinality(UnknownNames(call))

\* the same, for the fields written to /state (every field but name)
C17_StateFieldSkipped == call.prop # "name" => C17_UnknownNameSkipped

\* the requests of call c from the j-th on are those of its elements from the
\* i-th on, none left out: a name is looked up and, when the listing has it,
\* written to under its id; any other element is written to as it is
RECURSIVE EveryElementServed(_, _, _)
EveryElementServed(c, i, j) ==
    IF i > Len(Elements(c)) THEN j = Len(c.reqs) + 1
    ELSE LET e == Elements(c)[i]
             looked_up == /\ e.k = "str" /\ ~isdigit(e.s)
                          /\ ~(c.name = "set_light" /\ c.prop = "name")
             IsPut(n, id) == /\ n <= Len(c.reqs)
                             /\ c.reqs[n].rq.mode = "PUT"
                             /\ c.reqs[n].rq.address[2] = id
         IN IF ~looked_up
            THEN IsPut(j, str(e)) /\ EveryElementServed(c, i + 1, j + 1)
            ELSE /\ j <= Len(c.reqs)
                 /\ c.reqs[j].rq.mode = "GET"
                 /\ LET listing == c.reqs[j].body
                        at == FirstWhere(listing, LAMBDA m : NameOf(m[2]) = JStr(e.s))
                    IN IF at = 0 THEN EveryElementServed(c, i + 1, j + 1)
                       ELSE /\ IsPut(j + 1, listing.v[at][1])
                            /\ EveryElementServed(c, i + 1, j + 2)

\* the bridge answered a write of the last call with an error-shaped body
WriteRejected ==
    /\ call.name \in {"set_light", "set_group"}
    /\ AllAnswered(call)
    /\ \E j \in 1..Len(Puts(call)) :
          Puts(call)[j].how = "error" \/ IsErrorShaped(Puts(call)[j].body)

\* C18: when the bridge answers a write of set_light or set_group with an
\* error-shaped body, the call does not raise, goes on to the remaining ids,
\* and returns one response per write issued, the error entries included.
C18_ErrorAnswerKept ==
    WriteRejected =>
        /\ call.exc = NoExc
        /\ call.ret = JList([j \in 1..Len(Puts(call)) |-> Puts(call)[j].body])
        /\ \E j \in 1..Len(call.ret.v) : IsErrorShaped(call.ret.v[j])
        /\ EveryElementServed(call, 1, 1)

C18_Witness ==
    /\ WriteRejected
    /\ call.name = "set_group"
    /\ Len(Elements(call)) = 3
    /\ Len(call.ret.v) = 2
    /\ IsErrorShaped(call.ret.v[1])
    /\ ~IsErrorShaped(call.ret.v[2])

----------------------------------------------------------------------------
(* run_scene called on the Bridge *)

NoState == JObj(<<>>)
OnOff(on) == JObj(<< <<"on", JBool(on)>> >>)

\* the groups of the device: group 3 may carry the name of group 1
GroupsOf(third) ==
    << Resource("1", "Den", OnOff(FALSE), <<"10", "2">>),
       Resource("2", "Porch", OnOff(TRUE), <<"1">>),
       Resource("3", third, OnOff(TRUE), <<"1">>) >>
ThirdNames == {"Den", "Attic"}

\* the scenes of the device: three named Relax, with the light lists a, b
\* and c as the listing gives them, and one named Bright
ScenesOf(a, b, c) ==
    << Resource("s1", "Relax", NoState, a),
       Resource("s2", "Relax", NoState, b),
       Resource("s3", "Bright", NoState, <<"1">>),
       Resource("s4", "Relax", NoState, c) >>
FirstLights == {<<"1">>, <<"10", "2">>}
SecondLights == {<<"2">>, <<"2", "10">>}
LastLights == {<<"10", "2">>, <<"2", "1">>}

GroupNames == {"Den", "Porch", "Cellar"}
SceneNames == {"Relax", "Bright", "Sunset"}
\* transition_time: the default, or given
TransitionTimeArgs == {JInt(4), JInt(10)}
\* the calls of run_scene in one behaviour
MaxRuns == 1
\* every request answered, or the first, the second, the sixth or the
\* seventh answered by an error
ScenePlans ==
    {<<>>, <<"error">>, <<"ok", "error">>,
     <<"ok", "ok", "ok", "ok", "ok", "error">>,
     <<"ok", "ok", "ok", "ok", "ok", "ok", "error">>}

InitScene ==
    /\ Ready
    /\ \E third \in ThirdNames, a \in FirstLights, b \in SecondLights, c \in LastLights :
          hub = [NoHub EXCEPT !.groups = GroupsOf(third), !.scenes = ScenesOf(a, b, c)]
    /\ lights_by_id = <<>>
    /\ lights_by_name = <<>>
    /\ sensors_by_id = <<>>
    /\ sensors_by_name = <<>>
    /\ objs = <<>>
    /\ call = NoCall
    /\ prev = NoCall

\* bridge.run_scene(group_name, scene_name, transition_time)
RunScene ==
    \E group_name \in GroupNames : \E scene_name \in SceneNames :
    \E transition_time \in TransitionTimeArgs : \E plan \in ScenePlans :
        /\ calls < MaxRuns
        /\ Commit("run_scene", 0, "",
                  JObj(<< <<"group_name", JStr(group_name)>>,
                          <<"scene_name", JStr(scene_name)>>,
                          <<"transition_time", transition_time>> >>),
                  run_scene(World(plan), group_name, scene_name, transition_time))

NextScene == RunScene
SpecScene == InitScene /\ [][NextScene]_vars

----------------------------------------------------------------------------
(* Properties of run_scene *)

\* the groups and the scenes of the device that carry the names of the last
\* call, by their place in the listing
NamedGroups ==
    {i \in 1..Len(call.before.hub.groups) :
        JStr(call.before.hub.groups[i].name) = Get(call.value, "group_name")}
NamedScenes ==
    {i \in 1..Len(call.before.hub.scenes) :
        JStr(call.before.hub.scenes[i].name) = Get(call.value, "scene_name")}
TheGroup == call.before.hub.groups[CHOOSE i \in NamedGroups : TRUE]

\* the light ids of a resource as a sorted list of integers
SortedLights(r) == sorted([i \in 1..Len(r.lights) |-> int(r.lights[i])])

\* the named scenes whose lights are the group's
SameLights ==
    {i \in NamedScenes : SortedLights(call.before.hub.scenes[i]) = SortedLights(TheGroup)}

\* the activation requests of the last call
Activations == SelectSeq(call.reqs, LAMBDA q : q.rq.mode # "GET")

\* the last call activated scene i on the one named group, and nothing else
ActivatedOnly(i) ==
    /\ call.ret = True
    /\ Len(Activations) = 1
    /\ Activations[1].rq.mode = "PUT"
    /\ Activations[1].rq.address = <<"groups", TheGroup.id, "action">>
    /\ Activations[1].rq.data =
          JObj(<< <<"scene", JStr(call.before.hub.scenes[i].id)>>,
                  <<"transitiontime", Get(call.value, "transition_time")>> >>)

RanScene == call.name = "run_scene" /\ call.exc = NoExc

\* C19: when exactly one group has the group name and exactly one scene has
\* the scene name, run_scene activates that scene on that group and returns
\* True, whether or not the scene's lights are the group's.
C19_SingleSceneActivated ==
    (RanScene /\ Cardinality(NamedGroups) = 1 /\ Cardinality(NamedScenes) = 1) =>
        \A i \in NamedScenes : ActivatedOnly(i)

C19_Witness ==
    /\ RanScene /\ Cardinality(NamedGroups) = 1 /\ Cardinality(NamedScenes) = 1
    /\ SameLights = {}
    /\ call.ret = True
    /\ Len(Activations) = 1
    /\ ~IsErrorShaped(Activations[1].body)

\* C20: when exactly one group has the group name and two or more scenes have
\* the scene name, run_scene activates the first scene, in listing order,
\* whose sorted light ids are the group's sorted light ids, and returns True;
\* when there is none it issues no activation and returns False.
C20_FirstMatchingScene ==
    (RanScene /\ Cardinality(NamedGroups) = 1 /\ Cardinality(NamedScenes) >= 2) =>
        IF SameLights = {}
        THEN call.ret = False /\ Activations = <<>>
        ELSE ActivatedOnly(CHOOSE i \in SameLights : \A j \in SameLights : i <= j)

C20_Witness ==
    /\ RanScene /\ Cardinality(NamedGroups) = 1 /\ Cardinality(NamedScenes) >= 2
    /\ TheGroup.lights = <<"10", "2">>
    /\ SameLights = {2, 4}
    /\ call.before.hub.scenes[2].lights = <<"2", "10">>
    /\ call.ret = True

\* every read of the last call was answered with what the device holds
ReadsAnswered ==
    \A i \in 1..Len(call.reqs) : call.reqs[i].rq.mode = "GET" => call.reqs[i].how = "ok"

\* C30: run_scene never issues more than one activation request and returns
\* True exactly when it issued one; when the groups of the given name are not
\* exactly one, or no scene has the given name, it issues no activation, does
\* not raise and returns False.
C30_TrueIffActivated ==
    call.name = "run_scene" =>
        /\ Len(Activations) <= 1
        /\ call.exc = NoExc => call.ret \in {True, False}
        /\ call.exc = NoExc => (call.ret = True <=> Len(Activations) = 1)
        /\ (ReadsAnswered /\ (Cardinality(NamedGroups) # 1 \/ NamedScenes = {})) =>
              /\ Activations = <<>>
              /\ call.exc = NoExc
              /\ call.ret = False

\* two groups of the name
C30_Witness ==
    /\ RanScene
    /\ Cardinality(NamedGroups) = 2
    /\ NamedScenes # {}
    /\ Len(call.reqs) = 5
    /\ call.ret = False

\* no scene of the name
C30_NoSceneReached ==
    /\ RanScene /\ Cardinality(NamedGroups) = 1 /\ NamedScenes = {} /\ call.ret = False

----------------------------------------------------------------------------
(* One Sensor mirror and the sensor writes of the Bridge *)

MaxSensorOps == 2

\* the sensor of the bridge
OneSensor ==
    [NoHub EXCEPT !.sensors =
        << SensorResource("1", "Hallway", "CLIPGenericFlag",
                          JObj(<< <<"flag", True>>, <<"lastupdated", JStr("t0")>> >>),
                          JObj(<< <<"on", True>>, <<"battery", JInt(1)>> >>)) >>]

Structures == {"state", "config"}
\* the single assignments: an equal value, a value equal as a number, changed
\* values, a new key, and lastupdated
Assigned ==
    { <<"flag", True>>, <<"flag", False>>, <<"on", JInt(1)>>, <<"battery", JInt(2)>>,
      <<"lastupdated", JStr("t1")>> }
\* the mappings passed to update() and to set_sensor_state / set_sensor_config
Mappings ==
    { << <<"flag", False>>, <<"on", True>> >>,
      << <<"battery", JInt(1)>>, <<"on", False>>, <<"flag", True>> >>,
      << <<"lastupdated", JStr("t1")>>, <<"flag", False>> >> }
\* how the transport answers the requests of one call
SensorPlans == {<<>>, <<"timeout">>, <<"error">>, <<"ok", "timeout">>}

InitSensor ==
    /\ Ready
    /\ hub = OneSensor
    /\ lights_by_id = <<>>
    /\ lights_by_name = <<>>
    /\ sensors_by_id = <<>>
    /\ sensors_by_name = <<>>
    /\ objs = <<Sensor(1)>>
    /\ call = NoCall
    /\ prev = NoCall

\* sensor.state[key] = value, sensor.config[key] = value
SensorAssign ==
    \E structure \in Structures : \E a \in Assigned : \E plan \in SensorPlans :
        /\ calls < MaxSensorOps
        /\ Commit("assign", 1, structure, JObj(<<a>>),
                  Sensor_assign(World(plan), 1, structure, a[1], a[2]))

\* sensor.state.update(mapping), sensor.config.update(mapping)
SensorUpdate ==
    \E structure \in Structures : \E m \in Mappings : \E plan \in SensorPlans :
        /\ calls < MaxSensorOps
        /\ Commit("update", 1, structure, JObj(m),
                  Sensor_update(World(plan), 1, structure, m))

\* sensor.refresh()
SensorRefresh ==
    \E plan \in SensorPlans :
        /\ calls < MaxSensorOps
        /\ Commit("refresh", 1, "", JNull, Sensor_refresh(World(plan), 1))

\* bridge.set_sensor_state(1, mapping), bridge.set_sensor_config(1, mapping)
SetSensorContent ==
    \E structure \in Structures : \E m \in Mappings : \E plan \in SensorPlans :
        /\ calls < MaxSensorOps
        /\ Commit("set_sensor_content", 0, structure, JObj(m),
                  IF structure = "state"
                  THEN set_sensor_state(World(plan), JInt(1), JObj(m), JNull)
                  ELSE set_sensor_config(World(plan), JInt(1), JObj(m), JNull))

\* sensor.name, sensor.type, sensor.state, sensor.config
SensorProps == {"name", "type", "state", "config"}
SensorRead ==
    \E prop \in SensorProps : \E plan \in SensorPlans :
        /\ calls < MaxSensorOps
        /\ Commit("read", 1, prop, JNull, Sensor_getter(World(plan), 1, prop))

NextSensor ==
    \/ SensorAssign \/ SensorUpdate \/ SensorRefresh \/ SetSensorContent
    \/ SensorRead
SpecSensor == InitSensor /\ [][NextSensor]_vars

----------------------------------------------------------------------------
(* Properties of the Sensor mappings and of the sensor writes *)

\* a write through a Sensor mapping that returned
MappingWrite(c) == c.name \in {"assign", "update"} /\ c.exc = NoExc

\* the mapping's cache when the assignments of call c began: the one held
\* before the call, or the one the first access fetched
CacheAtWrite(c) ==
    IF c.before.objs[c.ref]._raw_data = JNull
    THEN Get(Doc("sensors", c.before.hub.sensors[1]), c.prop).v
    ELSE c.before.objs[c.ref][WrapperField[c.prop]]

\* the items of call c whose value differs from the cached one
Changed(c) ==
    SelectSeq(c.value.v,
              LAMBDA item : ~(/\ HasKey([v |-> CacheAtWrite(c)], item[1])
                              /\ PyEq(Get([v |-> CacheAtWrite(c)], item[1]), item[2])))

\* the write requests of call c
WritesOf(c) == SelectSeq(c.reqs, LAMBDA q : q.rq.mode # "GET")

\* the original statement of C21: one write per changed key, in order, its
\* payload that key and its value, and no write for an unchanged key
C21_OneWritePerChangedKey ==
    MappingWrite(call) =>
        /\ Len(WritesOf(call)) = Len(Changed(call))
        /\ \A j \in 1..Len(Changed(call)) :
              /\ WritesOf(call)[j].rq.mode = "PUT"
              /\ WritesOf(call)[j].rq.address = <<"sensors", "1", call.prop>>
              /\ WritesOf(call)[j].rq.data = JObj(<<Changed(call)[j]>>)

\* C21: assigning keys of a Sensor's state or config mapping, singly or
\* through update(), issues no write for a key whose value equals the cached
\* one and exactly one write per changed key, in order; the payload of that
\* write holds only that key and its value, and is empty when the key is
\* lastupdated.
C21_OneWritePerChangedKeyAmended ==
    MappingWrite(call) =>
        /\ Len(WritesOf(call)) = Len(Changed(call))
        /\ \A j \in 1..Len(Changed(call)) :
              /\ WritesOf(call)[j].rq.mode = "PUT"
              /\ WritesOf(call)[j].rq.address = <<"sensors", "1", call.prop>>
              /\ WritesOf(call)[j].rq.data =
                    JObj(Del(<<Changed(call)[j]>>, "lastupdated"))

C21_Witness ==
    /\ MappingWrite(call) /\ call.name = "update"
    /\ Len(call.value.v) = 3
    /\ Len(Changed(call)) = 2
    /\ Len(WritesOf(call)) = 2
    /\ call.before.objs[call.ref]._raw_data # JNull
    /\ call.reqs = WritesOf(call)

\* C22: no write to a sensor's state or config carries a lastupdated key,
\* whatever payload the caller passes, through set_sensor_state,
\* set_sensor_config or a Sensor mapping; set_sensor_state and
\* set_sensor_config send the other keys of the payload unchanged.
C22_NoLastUpdatedSent ==
    /\ \A j \in 1..Len(WritesOf(call)) :
          (/\ Len(WritesOf(call)[j].rq.address) = 3
           /\ WritesOf(call)[j].rq.address[1] = "sensors") =>
              ~HasKey(WritesOf(call)[j].rq.data, "lastupdated")
    /\ call.name = "set_sensor_content" =>
          /\ Len(call.reqs) = 1
          /\ call.reqs[1].rq.mode = "PUT"
          /\ call.reqs[1].rq.address = <<"sensors", "1", call.prop>>
          /\ call.reqs[1].rq.data = JObj(Del(call.value.v, "lastupdated"))

C22_Witness ==
    /\ call.name = "set_sensor_content" /\ call.exc = NoExc
    /\ HasKey(call.value, "lastupdated")
    /\ call.reqs[1].rq.data = JObj(<< <<"flag", False>> >>)
    /\ ~IsErrorShaped(call.ret)

----------------------------------------------------------------------------
(* Calls made while the transport fails *)

MaxFails == 2

Failures == {"timeout", "status", "refused"}
\* the transport fails the first, the second or the third request of a call,
\* or none
FailPlans ==
    {<<>>} \cup {<<h>> : h \in Failures} \cup {<<"ok", h>> : h \in Failures}
           \cup {<<"ok", "ok", h>> : h \in Failures}

InitTransport ==
    /\ Ready
    /\ hub = [OneSensor EXCEPT
                !.lights = <<KnownLights["1"], KnownLights["2"], KnownLights["10"]>>,
                !.scenes = << Resource("s1", "Relax", NoState, <<"1">>) >>]
    /\ lights_by_id = <<>>
    /\ lights_by_name = <<>>
    /\ sensors_by_id = <<>>
    /\ sensors_by_name = <<>>
    /\ objs = <<Sensor(1)>>
    /\ call = NoCall
    /\ prev = NoCall

\* the Light objects among the objects
LightRefs == {r \in 1..Len(objs) : "light_id" \in DOMAIN objs[r]}

\* bridge.get_light(light_id, "name")
FailingRead ==
    \E light_id \in {JInt(1), JStr("Hall")} : \E plan \in FailPlans :
        /\ calls < MaxFails
        /\ Commit("get_light", 0, "name", light_id,
                  get_light(World(plan), light_id, "name"))

\* bridge.get_light_objects()
FailingListing ==
    \E plan \in FailPlans :
        /\ calls < MaxFails
        /\ Commit("get_light_objects", 0, "list", JNull,
                  get_light_objects(World(plan), "list"))

\* light.name = "Lamp"
FailingRename ==
    \E ref \in LightRefs : \E plan \in FailPlans :
        /\ calls < MaxFails
        /\ Commit("rename", ref, "name", JStr("Lamp"),
                  Light_name_setter(World(plan), ref, JStr("Lamp")))

\* bridge.set_light([1, "Hall"], "bri", 200)
FailingWrite ==
    \E plan \in FailPlans :
        /\ calls < MaxFails
        /\ Commit("set_light", 0, "bri", JList(<<JInt(1), JStr("Hall")>>),
                  set_light(World(plan), JList(<<JInt(1), JStr("Hall")>>), "bri",
                            JInt(200), JNull))

\* bridge.delete_scene("s1")
FailingDelete ==
    \E plan \in FailPlans :
        /\ calls < MaxFails
        /\ Commit("delete_scene", 0, "", JStr("s1"), delete_scene(World(plan), "s1"))

\* sensor.state["flag"] = False
FailingAssign ==
    \E plan \in FailPlans :
        /\ calls < MaxFails
        /\ Commit("assign", 1, "state", JObj(<< <<"flag", False>> >>),
                  Sensor_assign(World(plan), 1, "state", "flag", False))

NextTransport ==
    \/ FailingRead \/ FailingListing \/ FailingRename
    \/ FailingWrite \/ FailingDelete \/ FailingAssign
SpecTransport == InitTransport /\ [][NextTransport]_vars

----------------------------------------------------------------------------
(* Properties of calls made while the transport fails *)

\* the requests of the last call that failed at the transport
FailedAt == {j \in 1..Len(call.reqs) : call.reqs[j].exc # NoExc}

\* the original statement of C23: a failure raised by the transport during a
\* read, a write or a delete ends the call with that failure, and no request
\* follows the failed one
C23_FailurePropagates ==
    \A j \in FailedAt : j = Len(call.reqs) /\ call.exc = call.reqs[j].exc

\* what holds of C23: all calls but delete_scene and the assignments to a
\* Sensor mapping end with the failure the transport raised
C23_PropagatesElsewhere ==
    call.name \notin {"delete_scene", "assign"} => C23_FailurePropagates

\* C24: a request whose transport times out raises PhueRequestTimeout after one
\* attempt: the failed request is logged once and no request follows it; the
\* address, the credential and the light caches of the Session are as they
\* were before the call.
C24_TimeoutOnce ==
    \A j \in 1..Len(call.reqs) :
        call.reqs[j].how = "timeout" =>
            /\ call.reqs[j].exc =
                  PhueRequestTimeout(-1, MsgRequestTimedOut(call.reqs[j].rq.mode))
            /\ j = Len(call.reqs)
            /\ \A i \in 1..(j - 1) : call.reqs[i].how = "ok"
            /\ lights_by_id = call.before.by_id
            /\ lights_by_name = call.before.by_name
            /\ sess = [ip |-> "10.0.0.1", username |-> "usr"]

C24_Witness ==
    /\ call.name = "rename"
    /\ Len(call.reqs) = 2
    /\ call.reqs[2].how = "timeout" /\ call.reqs[2].rq.mode = "PUT"
    /\ call.exc = PhueRequestTimeout(-1, "PUT Request timed out.")
    /\ Len(lights_by_id) = 3 /\ Len(lights_by_name) = 3

----------------------------------------------------------------------------
(* The payloads of set_light and set_group: fields and transitiontime *)

MaxWrites == 2

\* the sticky transitiontime of the Light mirror: none, or 10
StickyTimes == {JNull, JInt(10)}
PayloadTargets == {JInt(1), JStr("Hall")}
PayloadPlans == {<<>>, <<"error">>}

\* objs[1] is a dict of the caller, objs[2] the Light mirror of light 1
InitPayload ==
    /\ Ready
    /\ hub = [NoHub EXCEPT !.lights = <<KnownLights["1"], KnownLights["2"]>>,
                           !.groups = KnownGroups]
    /\ lights_by_id = << <<1, 2>> >>
    /\ lights_by_name = << <<"Kitchen", 2>> >>
    /\ sensors_by_id = <<>>
    /\ sensors_by_name = <<>>
    /\ \E t \in StickyTimes :
          objs = <<Mapping(<< <<"bri", JInt(200)>> >>),
                   [Light(1) EXCEPT !.transitiontime = t]>>
    /\ call = NoCall
    /\ prev = NoCall

CommitPayload(name, ref, target, setting, tt, w) ==
    /\ calls < MaxWrites
    /\ Commit(name, ref, setting[1],
              JObj(<< <<"id", target>>, <<"value", setting[2]>>, <<"transitiontime", tt>> >>),
              w)

\* bridge.set_light(light_id, params, transitiontime=tt), params the caller's dict
SetLightMapping ==
    \E target \in PayloadTargets : \E tt \in TransitionArgs : \E plan \in PayloadPlans :
        CommitPayload("set_light", 1, target, <<"<dict>", JObj(objs[1].members)>>, tt,
                      set_light_mapping(World(plan), target, 1, tt))

\* bridge.set_light(light_id, parameter, value, transitiontime)
SetLightField ==
    \E target \in PayloadTargets : \E setting \in LightSettings :
    \E tt \in TransitionArgs : \E plan \in PayloadPlans :
        CommitPayload("set_light", 0, target, setting, tt,
                      set_light(World(plan), target, setting[1], setting[2], tt))

\* bridge.set_group(group_id, parameter, value, transitiontime)
SetGroupField ==
    \E target \in {JInt(1), JStr("Den")} : \E setting \in GroupSettings :
    \E tt \in TransitionArgs : \E plan \in PayloadPlans :
        CommitPayload("set_group", 0, target, setting, tt,
                      set_group(World(plan), target, setting[1], setting[2], tt))

\* light.name = value, light.brightness = value
MirrorWrite ==
    \E setting \in LightSettings : \E plan \in PayloadPlans :
        CommitPayload("mirror", 2, JInt(1), setting, objs[2].transitiontime,
                      IF setting[1] = "name"
                      THEN Light_name_setter(World(plan), 2, setting[2])
                      ELSE Light_setter(World(plan), 2, "brightness", setting[2]))

NextPayload == SetLightMapping \/ SetLightField \/ SetGroupField \/ MirrorWrite
SpecPayload == InitPayload /\ [][NextPayload]_vars

----------------------------------------------------------------------------
(* Properties of the payloads *)

\* the payload of request q carries a transitiontime
Timed(q) == q.rq.data # JNull /\ HasKey(q.rq.data, "transitiontime")

\* the transitiontime argument of call c
TimeArg(c) == Get(c.value, "transitiontime")

\* C25: a set_light call made without transitiontime sends no transitiontime
\* key, also when its parameter mapping was passed to an earlier call that had
\* a transitiontime.
C25_TransitionNotSaved ==
    (call.name = "set_light" /\ TimeArg(call) = JNull) =>
        \A i \in 1..Len(Puts(call)) : ~Timed(Puts(call)[i])

\* the same, for the calls whose parameter is a field name
C25_FieldCallsNotSaved == call.ref = 0 => C25_TransitionNotSaved

\* the writes of call c carry its transitiontime, rounded, when it has one
\* and its field is none of exempt, and no transitiontime otherwise
TimedUnless(c, exempt) ==
    \A i \in 1..Len(Puts(c)) :
        LET q == Puts(c)[i]
        IN IF TimeArg(c) # JNull /\ c.prop \notin exempt
           THEN /\ Timed(q)
                /\ Get(q.rq.data, "transitiontime") = int_round(TimeArg(c))
           ELSE ~Timed(q)

\* C27: a set_light or set_group call that sets a field adds its
\* transitiontime, rounded to an integer, to the payload of every write,
\* unless the field is name: a name write carries no transitiontime, also
\* when it comes from a Light mirror with a sticky transitiontime.
C27_NameWithoutTransition == call.prop # "<dict>" => TimedUnless(call, {"name"})

\* the same, with no field exempt
C27_EveryFieldTimed == call.prop # "<dict>" => TimedUnless(call, {})

----------------------------------------------------------------------------
(* The order of the writes of set_light and set_group *)

\* the collection a call writes to
CollectionOf(c) == IF c.name = "set_group" THEN "groups" ELSE "lights"

\* the ids the elements of call c resolve to, from element i on, in list
\* order: a number stands for itself, a non-numeric name for the id of the
\* first resource of that name, and a name of no resource for nothing
RECURSIVE ResolvedIds(_, _)
ResolvedIds(c, i) ==
    IF i > Len(Elements(c)) THEN <<>>
    ELSE LET e == Elements(c)[i]
             listed == c.before.hub[CollectionOf(c)]
             named == {j \in 1..Len(listed) : listed[j].name = e.s}
         IN IF ~(e.k = "str" /\ ~isdigit(e.s))
            THEN <<str(e)>> \o ResolvedIds(c, i + 1)
            ELSE IF named = {} THEN ResolvedIds(c, i + 1)
            ELSE <<listed[CHOOSE j \in named : \A k \in named : j <= k].id>>
                     \o ResolvedIds(c, i + 1)

\* write q was accepted by the bridge
Accepted(q) == q.how = "ok" /\ ~IsErrorShaped(q.body)

\* the resource write q is addressed to holds what call c set
Holds(c, q) ==
    \E j \in 1..Len(hub[CollectionOf(c)]) :
        LET r == hub[CollectionOf(c)][j]
        IN /\ r.id = q.rq.address[2]
           /\ IF c.prop = "name" THEN r.name = Get(c.value, "value").s
              ELSE Get(r.state, c.prop) = Get(c.value, "value")

\* the writes of call c are addressed to the ids its elements resolve to, in
\* list order and one each; no request follows one that raised; what the
\* accepted writes set is still set after the call
WritesInOrder(c) ==
    /\ Len(Puts(c)) <= Len(ResolvedIds(c, 1))
    /\ \A j \in 1..Len(Puts(c)) : Puts(c)[j].rq.address[2] = ResolvedIds(c, 1)[j]
    /\ c.exc = NoExc => Len(Puts(c)) = Len(ResolvedIds(c, 1))
    /\ \A j \in 1..Len(c.reqs) : c.reqs[j].exc # NoExc => j = Len(c.reqs) /\ c.exc = c.reqs[j].exc
    /\ \A j \in 1..Len(Puts(c)) : Accepted(Puts(c)[j]) => Holds(c, Puts(c)[j])

\* C28: set_light and set_group on a list of ids issue their writes one at a
\* time in list order, one per resolved id; when a write raises, no write is
\* issued for the later ids and the writes already made are not undone.
C28_WritesInListOrder ==
    call.name \in {"set_light", "set_group"} => WritesInOrder(call)

\* the same, for every call but set_light with the field name
C28_InOrderButLightNames ==
    (call.name = "set_group" \/ (call.name = "set_light" /\ call.prop # "name"))
        => WritesInOrder(call)

\* a write raised after an accepted one, with an id left over
C28_Aborted ==
    /\ call.name \in {"set_light", "set_group"}
    /\ call.exc # NoExc
    /\ Len(Puts(call)) = 2
    /\ Accepted(Puts(call)[1])
    /\ Puts(call)[2].exc # NoExc
    /\ Len(ResolvedIds(call, 1)) > 2

\* every write of call c goes to a numeric id
NumericWrites(c) ==
    \A j \in 1..Len(Puts(c)) : isdigit(Puts(c)[j].rq.address[2])

\* C29: every write request of set_light is addressed to a numeric light id,
\* whatever the field being set, name included: a non-numeric name is
\* resolved over the light listing first.
C29_NumericAddress == call.name = "set_light" => NumericWrites(call)

\* the same, for the fields written to /state; each of them is the id the
\* name resolves to
C29_StateFieldsNumeric ==
    (call.name = "set_light" /\ call.prop # "name") =>
        /\ NumericWrites(call)
        /\ \A j \in 1..Len(Puts(call)) :
              Puts(call)[j].rq.address[2] = ResolvedIds(call, 1)[j]

----------------------------------------------------------------------------
(* phue2.__main__.main(["--host", host, "--config-file-path", path]), with  *)
(* no command.  call.value counts the Bridge constructions begun, call.reqs *)
(* holds how each one that ended did end, call.ret is the exit code once    *)
(* main has returned.                                                       *)

MaxAttempts == 3

\* variant: every failure of the constructor is retried
MainOutcome_RetryAny(e) == IF e = NoExc THEN JInt(0) ELSE JNull

\* the try statement of the loop, for a constructor that ended with e (NoExc:
\* it returned): the exit code, or JNull when the loop goes round again
MainOutcome(e) ==
    IF e = NoExc THEN JInt(0)
    ELSE IF e.cls = "PhueRegistrationException" THEN JNull
    ELSE JInt(1)

\* main with n constructions begun of which those of `ended` have ended
MainCall(n, ended, ret) ==
    [NoCall EXCEPT !.name = "main", !.value = JInt(n), !.reqs = ended, !.ret = ret]

\* the constructor stands at r; when it has ended, main goes on from it
MainStep(r, n) ==
    /\ op' = "init"
    /\ pc' = r.pc
    /\ sess' = r.s
    /\ file' = r.file
    /\ exc' = r.exc
    /\ io' = r.io
    /\ lastReg' = IF r.reg # NoReg THEN r.reg ELSE lastReg
    /\ alive' = (r.pc = "idle" /\ r.exc = NoExc)
    /\ call' = IF r.pc = "idle"
               THEN MainCall(n, Append(call.reqs, r.exc), MainOutcome(r.exc))
               ELSE MainCall(n, call.reqs, JNull)
    /\ UNCHANGED <<hub, lights_by_id, lights_by_name, sensors_by_id, sensors_by_name,
                   objs, prev, calls>>

\* bridge = Bridge(args.host, config_file_path=args.config_file_path)
MainConstruct(host, n) ==
    LET kw == [ip |-> host, username |-> None, save_config |-> "omitted"] IN
    /\ MainStep(bridge_init(kw, file), n)
    /\ args' = kw
    /\ env' = [disc |-> NoDisc, post |-> NoPost]
    /\ pre' = [file |-> file, ip |-> host, username |-> None, reg |-> lastReg]

\* main is called
MainStart ==
    \E host \in Addrs :
        /\ call.name = "none"
        /\ MainConstruct(host, 1)

\* the bridge answers the registration POST (or the POST fails)
MainResponse ==
    \E post \in PostResults :
        /\ call.name = "main" /\ pc = "post"
        /\ MainStep(register_app_response(sess, file, post, io), call.value.v[1])
        /\ env' = [env EXCEPT !.post = post]
        /\ UNCHANGED <<args, pre>>

\* input("Press Enter to try again...") returns and the loop goes round
MainRetry ==
    /\ call.name = "main" /\ pc = "idle" /\ call.ret = JNull
    /\ call.value.v[1] < MaxAttempts
    /\ MainConstruct(args.ip, call.value.v[1] + 1)

NextCli == MainStart \/ MainResponse \/ MainRetry
SpecCli == Init /\ [][NextCli]_vars

----------------------------------------------------------------------------
(* Properties of main *)

IsButtonError(e) == e.cls = "PhueRegistrationException"

\* C26: with --host, main constructs a Bridge again after every registration
\* error of the button-not-pressed kind and after nothing else: it returns 0
\* at the first construction that succeeds and 1 at the first that fails in
\* any other way.
C26_RetryOnlyOnRegistration ==
    call.name = "main" =>
        LET ended == call.reqs
            begun == call.value.v[1]
        IN /\ \A i \in 1..(Len(ended) - 1) : IsButtonError(ended[i])
           /\ begun = IF pc = "idle" THEN Len(ended) ELSE Len(ended) + 1
           /\ call.ret \in {JNull, JInt(0), JInt(1)}
           /\ call.ret = JInt(0) <=> (pc = "idle" /\ ended[Len(ended)] = NoExc)
           /\ call.ret = JInt(1) <=>
                 (pc = "idle" /\ ended[Len(ended)] # NoExc
                              /\ ~IsButtonError(ended[Len(ended)]))
           /\ (pc = "idle" /\ call.ret = JNull /\ begun < MaxAttempts) => ENABLED MainRetry
           /\ call.ret # JNull => ~ENABLED NextCli

\* two button errors, then a registration
C26_Witness ==
    /\ call.name = "main"
    /\ call.ret = JInt(0)
    /\ Len(call.reqs) = 3
    /\ IsButtonError(call.reqs[1]) /\ IsButtonError(call.reqs[2])
    /\ lastReg # NoReg

\* a button error, then a failure of another kind
C26_FailureReached ==
    /\ call.name = "main"
    /\ call.ret = JInt(1)
    /\ Len(call.reqs) = 2
    /\ IsButtonError(call.reqs[1])

----------------------------------------------------------------------------
(* The restore flag of the Light mirror *)

\* the last call was light.on = value and it returned
WroteOn(value) ==
    call.name = "set" /\ call.prop = "on" /\ call.value = value /\ call.exc = NoExc

\* the mirror before the last call, and now
Before == call.before.objs[call.ref]
Now == objs[call.ref]

\* C31: an on=True write replays the brightness only when the mirror holds
\* off and the restore flag is set, and leaves the flag clear; the flag gets
\* set only by an on=False write made with a transitiontime configured, so
\* further on=True writes issue no brightness write, and a mirror that never
\* had a transitiontime never issues one from the on setter.
C31_ReplayOnce ==
    /\ WroteOn(True) =>
          /\ Len(BriWrites(call)) <= 1
          /\ BriWrites(call) # <<>> =>
                /\ Before._on = False /\ Before._reset_bri_after_on = True
                /\ Before._brightness # JNull
                /\ Get(BriWrites(call)[1].rq.data, "bri") = Before._brightness
          /\ Before._on = False => Now._reset_bri_after_on # True
          /\ Before._reset_bri_after_on # True => Now._reset_bri_after_on # True
          /\ Now._on = True
    /\ WroteOn(False) => BriWrites(call) = <<>>
    /\ (call.name \in {"set", "get", "transitiontime"}
           /\ Now._reset_bri_after_on = True /\ Before._reset_bri_after_on # True) =>
          /\ call.name = "set" /\ call.prop = "on" /\ call.value = False
          /\ Before.transitiontime # JNull

\* off with a transitiontime, then on: the cached brightness is written again
C31_Witness ==
    /\ WroteOn(True)
    /\ Before._reset_bri_after_on = True
    /\ Len(BriWrites(call)) = 1
    /\ Now._reset_bri_after_on = False

\* the same with no brightness cached: nothing is replayed
C31_SkipReached ==
    /\ WroteOn(True)
    /\ Before._on = False /\ Before._reset_bri_after_on = True
    /\ Before._brightness = JNull
    /\ BriWrites(call) = <<>>
    /\ Now._reset_bri_after_on = False

----------------------------------------------------------------------------
(* Sensor.refresh and the reads of the Sensor mirror *)

\* the last call was sensor.refresh() and it returned
Refreshed == call.name = "refresh" /\ call.exc = NoExc

\* the sensor document the device holds for the mirror of the last call
DeviceDoc == Doc("sensors", hub.sensors[1])

\* C32: refresh() fetches the sensor document with one GET, issues no write,
\* and leaves in the flat attributes and in the state and config mappings
\* exactly what the document holds: keys the document lacks are gone.
C32_RefreshReplaces ==
    Refreshed =>
        /\ Len(call.reqs) = 1
        /\ call.reqs[1].rq.mode = "GET"
        /\ call.reqs[1].rq.address = <<"sensors", str(JInt(Now.sensor_id))>>
        /\ call.reqs[1].body = DeviceDoc
        /\ hub = call.before.hub
        /\ Now._raw_data = DeviceDoc
        /\ Now._name = Get(DeviceDoc, "name")
        /\ Now._type = Get(DeviceDoc, "type")
        /\ Now._state = Get(DeviceDoc, "state").v
        /\ Now._config = Get(DeviceDoc, "config").v

\* a key that was cached and never reached the device is dropped
C32_Witness ==
    /\ Refreshed
    /\ \E i \in 1..Len(Before._state) :
          /\ Before._state[i][1] = "battery"
          /\ ~HasKey(JObj(Now._state), "battery")

\* the last call was a read of a property of the Sensor mirror
ReadSensor == call.name = "read"

\* what a read of property prop gives from the cached fields of mirror m
CachedValue(m, prop) ==
    CASE prop = "name" -> m._name
      [] prop = "type" -> m._type
      [] prop = "state" -> JObj(m._state)
      [] OTHER -> JObj(m._config)

\* C33: the first read of a property of a Sensor mirror fetches the sensor
\* document with exactly one request; a read on a mirror that holds a
\* document issues no request and returns the cached value.
C33_FetchedOnce ==
    ReadSensor =>
        /\ Before._raw_data = JNull =>
              /\ Len(call.reqs) = 1
              /\ call.reqs[1].rq.mode = "GET"
              /\ call.reqs[1].rq.address = <<"sensors", str(JInt(Now.sensor_id))>>
              /\ call.exc = NoExc =>
                    /\ Now._raw_data = call.reqs[1].body
                    /\ call.ret = CachedValue(Now, call.prop)
        /\ Before._raw_data # JNull =>
              /\ call.reqs = <<>>
              /\ call.exc = NoExc
              /\ call.ret = CachedValue(Before, call.prop)
              /\ Now = Before
        /\ calls = 1 => Before._raw_data = JNull
        /\ (prev.name = "read" /\ prev.exc = NoExc) => Before._raw_data # JNull

\* a read that fetched, then a read of another property served from the cache
C33_Witness ==
    /\ ReadSensor /\ prev.name = "read"
    /\ Len(prev.reqs) = 1 /\ prev.exc = NoExc
    /\ call.prop # prev.prop
    /\ call.reqs = <<>>
    /\ call.ret = JObj(Now._state)

----------------------------------------------------------------------------
(* The credential file over the lifetime of one Session: the constructor    *)
(* and the connect() and register_app() calls made on the Bridge it built.  *)
(* call.value holds the reads and writes of the file since the constructor  *)
(* was called, call.ret those made before the operation under way.          *)

NoFileIO == [reads |-> 0, writes |-> 0]

\* the file I/O of a lifetime: `base` before the operation, n during it
Lifetime(base, n) ==
    [NoCall EXCEPT !.name = "session",
                   !.value = [reads |-> base.reads + n.reads,
                              writes |-> base.writes + n.writes],
                   !.ret = base]

\* operation o stands at r; base is the file I/O of the lifetime before it
SessionStep(o, r, base) ==
    /\ op' = o
    /\ pc' = r.pc
    /\ sess' = r.s
    /\ file' = r.file
    /\ exc' = r.exc
    /\ io' = r.io
    /\ lastReg' = IF r.reg # NoReg THEN r.reg ELSE lastReg
    /\ alive' = IF o = "init" THEN r.pc = "idle" /\ r.exc = NoExc ELSE alive
    /\ call' = Lifetime(base, r.io)
    /\ UNCHANGED <<hub, lights_by_id, lights_by_name, sensors_by_id, sensors_by_name,
                   objs, prev>>

\* Bridge(ip, username, config_file_path=path): a lifetime begins
SessionConstruct ==
    \E ip \in Addrs \cup {None}, username \in SuppliedUsers \cup {None} :
        LET kw == [ip |-> ip, username |-> username, save_config |-> "omitted"] IN
        /\ pc = "idle"
        /\ call.name = "none"
        /\ SessionStep("init", bridge_init(kw, file), NoFileIO)
        /\ args' = kw
        /\ env' = [disc |-> NoDisc, post |-> NoPost]
        /\ pre' = [file |-> file, ip |-> ip, username |-> username, reg |-> lastReg]
        /\ calls' = 0

\* bridge.connect() on the Bridge
SessionConnect ==
    /\ pc = "idle" /\ alive /\ calls < MaxCalls
    /\ SessionStep("connect", connect(sess, file), call.value)
    /\ env' = [disc |-> NoDisc, post |-> NoPost]
    /\ pre' = [file |-> file, ip |-> sess.ip, username |-> sess.username, reg |-> lastReg]
    /\ calls' = calls + 1
    /\ UNCHANGED args

\* bridge.register_app() on the Bridge
SessionRegisterApp ==
    /\ pc = "idle" /\ alive /\ calls < MaxCalls
    /\ SessionStep("register_app", register_app(sess, file, NoIO), call.value)
    /\ env' = [disc |-> NoDisc, post |-> NoPost]
    /\ pre' = [file |-> file, ip |-> sess.ip, username |-> sess.username, reg |-> lastReg]
    /\ calls' = calls + 1
    /\ UNCHANGED args

\* the discovery endpoint answers (or the GET fails)
SessionDiscovery ==
    \E disc \in DiscResults :
        /\ pc = "discover"
        /\ SessionStep(op, OnDiscovered(sess, file, disc, io), call.ret)
        /\ env' = [env EXCEPT !.disc = disc]
        /\ UNCHANGED <<args, pre, calls>>

\* the bridge answers the registration POST (or the POST fails)
SessionResponse ==
    \E post \in PostResults :
        /\ pc = "post"
        /\ SessionStep(op, register_app_response(sess, file, post, io), call.ret)
        /\ env' = [env EXCEPT !.post = post]
        /\ UNCHANGED <<args, pre, calls>>

NextSession ==
    \/ SessionConstruct \/ SessionConnect \/ SessionRegisterApp
    \/ SessionDiscovery \/ SessionResponse
SpecSession == Init /\ [][NextSession]_vars

----------------------------------------------------------------------------
(* Properties of the credential file over a lifetime *)

\* the file was written by the operation under way
WroteFile == call.name = "session" /\ io.writes > 0

\* C34: over the lifetime of one Session the credential file is opened for
\* reading at most once and written at most once, and it is written only by
\* a registration handshake that received a success entry.
C34_FileOncePerLifetime ==
    call.name = "session" =>
        /\ call.value.reads <= 1
        /\ call.value.writes <= 1
        /\ WroteFile => (env.post.kind = "ok" /\ YieldsSuccess(env.post.body))

\* C34 as it holds: each operation of the lifetime (the constructor, a
\* connect() call, a register_app() call) opens the file for reading at most
\* once and writes it at most once, only after a handshake that received a
\* success entry; a connect() call on a Session that has its address and its
\* credential does not open the file.
C34_FileOncePerOperation ==
    call.name = "session" =>
        /\ io.reads <= 1
        /\ io.writes <= 1
        /\ call.value.reads = call.ret.reads + io.reads
        /\ call.value.writes = call.ret.writes + io.writes
        /\ WroteFile => (env.post.kind = "ok" /\ YieldsSuccess(env.post.body))
        /\ (op = "connect" /\ pre.ip # None /\ pre.username # None) => io.reads = 0
        /\ op = "register_app" => io.reads = 0

\* the constructor registered and wrote the file, and so did a register_app()
\* call made later on the same Bridge
C34_Witness ==
    /\ call.name = "session"
    /\ op = "register_app" /\ pc = "idle"
    /\ io.writes = 1
    /\ call.ret.writes = 1
    /\ call.value.reads = 1

----------------------------------------------------------------------------
(* The light caches once they are filled *)

\* the caches were filled when the last call began
Filled == call.before.by_id # <<>>

\* the last call was a lookup: get_light_objects(mode) or bridge[key]
LookedUp == call.name \in {"get_light_objects", "getitem"}

\* the Light objects a value holds: one reference, or a list or a dict of them
RefsOf(x) ==
    IF x.k = "ref" THEN {x.v[1]}
    ELSE IF x.k = "list" THEN {x.v[i].v[1] : i \in 1..Len(x.v)}
    ELSE IF x.k = "obj" THEN {x.v[i][2].v[1] : i \in 1..Len(x.v)}
    ELSE {}

\* C35: once the light caches are filled, get_light_objects and bridge[key]
\* issue no request and return the Light objects that were cached, the same
\* as before; and no call ever removes a light from lights_by_id or puts
\* another object in its place.
C35_SameInstances ==
    /\ (LookedUp /\ Filled /\ call.exc = NoExc) =>
          /\ call.reqs = <<>>
          /\ RefsOf(call.ret) \subseteq Held(call.before.by_id)
          /\ call.name = "get_light_objects" =>
                RefsOf(call.ret) = Held(call.before.by_id)
    /\ \A i \in 1..Len(call.before.by_id) :
          /\ i <= Len(lights_by_id)
          /\ lights_by_id[i] = call.before.by_id[i]

\* the same for what is looked up by id: no request, no new object, the
\* mappings untouched, the objects of lights_by_id returned; and no entry of
\* lights_by_id is ever removed or given another object
C35_FilledOnce ==
    /\ (LookedUp /\ Filled) =>
          /\ call.reqs = <<>>
          /\ objs = call.before.objs
          /\ lights_by_id = call.before.by_id
          /\ lights_by_name = call.before.by_name
          /\ RefsOf(call.ret) \subseteq (Held(call.before.by_id) \cup Held(call.before.by_name))
          /\ (call.name = "get_light_objects" /\ call.prop \in {"list", "id"}) =>
                RefsOf(call.ret) = Held(call.before.by_id)
          /\ (call.name = "getitem" /\ call.exc = NoExc /\ call.value.k = "int") =>
                call.ret = Ref(Get([v |-> call.before.by_id], call.value.v[1]))
    /\ \A i \in 1..Len(call.before.by_id) :
          /\ i <= Len(lights_by_id)
          /\ lights_by_id[i] = call.before.by_id[i]
          /\ objs[lights_by_id[i][2]].light_id = lights_by_id[i][1]
    /\ Len(call.before.objs) <= Len(objs)
    /\ (Filled /\ call.name # "group_lights") => Len(objs) = Len(call.before.objs)

\* a name lookup that returns a Light built on demand, and a listing by
\* name that lacks a cached Light
C35_OtherInstanceReached ==
    ~(/\ LookedUp /\ Filled /\ call.exc = NoExc
      /\ call.name = "getitem"
      /\ ~(RefsOf(call.ret) \subseteq Held(call.before.by_id)))

C35_MissingInstanceReached ==
    ~(/\ LookedUp /\ Filled /\ call.exc = NoExc
      /\ call.name = "get_light_objects" /\ call.prop = "name"
      /\ prev.name = "rename" /\ Cached(prev.before.by_id, prev.ref)
      /\ RefsOf(call.ret) # Held(call.before.by_id)
      /\ RefsOf(call.ret) \subseteq Held(call.before.by_id))

\* two lookups, the second one served from the caches the first one filled
C35_Witness ==
    /\ LookedUp /\ Filled
    /\ prev.name = "get_light_objects" /\ Len(prev.reqs) = 1
    /\ call.name = "get_light_objects" /\ call.prop = "list"
    /\ call.ret = prev.ret
    /\ Len(call.ret.v) = 3

\* the two caches d and n hold the same Light objects, each of them under
\* exactly one name of n
Agree(d, n) ==
    /\ Held(n) = Held(d)
    /\ \A ref \in Held(d) :
          \E i \in 1..Len(n) :
              n[i][2] = ref /\ \A j \in 1..Len(n) : n[j][2] = ref => j = i

\* C37: after any sequence of listings and of renames through any Light
\* object of the Session, lights_by_name and lights_by_id hold the same Light
\* objects and every cached Light is in lights_by_name under exactly one name.
C37_CachesAgree == Agree(lights_by_id, lights_by_name)

\* the last call renamed a cached Light to a name no light has, and the
\* bridge accepted the write
RenamedApart ==
    /\ Renamed /\ \A i \in 1..Len(call.reqs) : call.reqs[i].how = "ok"
    /\ \A i \in 1..Len(call.before.hub.lights) :
          call.before.hub.lights[i].name # call.value.s

\* listings, lookups and the renames of RenamedApart keep the caches agreeing
C37_AgreeKept ==
    (Agree(call.before.by_id, call.before.by_name)
        /\ (call.name # "rename" \/ RenamedApart))
        => C37_CachesAgree

\* a rename to the current name: the Light is under no name
C37_SameNameReached ==
    ~(/\ call.name = "rename" /\ call.exc = NoExc
      /\ Cached(call.before.by_id, call.ref)
      /\ call.value.s = HubName(call.before.hub, objs[call.ref].light_id)
      /\ Agree(call.before.by_id, call.before.by_name)
      /\ ~Cached(lights_by_name, call.ref))

\* a rename through a Light built on demand: lights_by_name holds an object
\* that lights_by_id does not
C37_OnDemandReached ==
    ~(/\ call.name = "rename" /\ call.exc = NoExc
      /\ ~Cached(call.before.by_id, call.ref)
      /\ Agree(call.before.by_id, call.before.by_name)
      /\ Cached(lights_by_name, call.ref)
      /\ ~Cached(lights_by_id, call.ref))

----------------------------------------------------------------------------
(* The sensor caches: listing, creation, deletion and renaming of sensors *)

MaxSensorCalls == 3

\* the sensors of the bridge
TwoSensors ==
    [NoHub EXCEPT !.sensors =
        << SensorResource("1", "Hallway", "CLIPGenericFlag",
                          JObj(<< <<"flag", True>> >>), JObj(<< <<"on", True>> >>)),
           SensorResource("2", "Porch", "CLIPPresence",
                          JObj(<< <<"presence", False>> >>), JObj(<< <<"on", True>> >>)) >>]

\* ids passed to delete_sensor: listed ones, the one a creation gets, no one's
DeletedIds == {1, 2, 3, 10}
\* values assigned to sensor.name and written by set_sensor
SensorNames == {JStr("Hallway"), JStr("Den"), JInt(5)}
\* how the transport answers the requests of one call
CachePlans == {<<>>, <<"timeout">>, <<"error">>, <<"ok", "timeout">>, <<"ok", "error">>}

InitSensorCache ==
    /\ Ready
    /\ hub = TwoSensors
    /\ lights_by_id = <<>>
    /\ lights_by_name = <<>>
    /\ sensors_by_id = <<>>
    /\ sensors_by_name = <<>>
    /\ objs = <<>>
    /\ call = NoCall
    /\ prev = NoCall

\* bridge.get_sensor_objects(mode)
GetSensorObjects ==
    \E mode \in Modes : \E plan \in {<<>>, <<"timeout">>} :
        /\ calls < MaxSensorCalls
        /\ Commit("get_sensor_objects", 0, mode, JNull,
                  get_sensor_objects(World(plan), mode))

\* bridge.create_sensor("Den", ...)
CreateSensor ==
    \E plan \in {<<>>, <<"error">>, <<"timeout">>} :
        /\ calls < MaxSensorCalls
        /\ Commit("create_sensor", 0, "", JStr("Den"),
                  create_sensor(World(plan), JStr("Den"), JStr("PHUE"), JStr("1.0"),
                                JStr("CLIPGenericFlag"), JStr("uid-1"), JStr("phue"),
                                JObj(<< <<"flag", False>> >>), JObj(<<>>), False))

\* bridge.delete_sensor(sensor_id)
DeleteSensor ==
    \E sensor_id \in DeletedIds : \E plan \in CachePlans :
        /\ calls < MaxSensorCalls
        /\ Commit("delete_sensor", 0, "", JInt(sensor_id),
                  delete_sensor(World(plan), JInt(sensor_id)))

\* bridge.set_sensor(1, "name", value)
SetSensor ==
    \E value \in {JStr("Den")} : \E plan \in {<<>>, <<"error">>} :
        /\ calls < MaxSensorCalls
        /\ Commit("set_sensor", 0, "name", value,
                  set_sensor(World(plan), JInt(1), JStr("name"), value))

\* sensor.name = value, on a Sensor object obtained from the Bridge
SensorRename ==
    \E ref \in 1..Len(objs) : \E value \in SensorNames : \E plan \in CachePlans :
        /\ calls < MaxSensorCalls
        /\ Commit("sensor_rename", ref, "name", value,
                  Sensor_name_setter(World(plan), ref, value))

NextSensorCache ==
    \/ GetSensorObjects \/ CreateSensor \/ DeleteSensor \/ SetSensor \/ SensorRename
SpecSensorCache == InitSensorCache /\ [][NextSensorCache]_vars

----------------------------------------------------------------------------
(* Properties of the sensor caches *)

\* the last call was the first get_sensor_objects of the Session, made at
\* once or after one other operation, and it returned
FirstSensorListing ==
    /\ call.name = "get_sensor_objects" /\ call.exc = NoExc
    /\ calls <= 2
    /\ prev.name # "get_sensor_objects"

\* the returned collection holds a Sensor object for sensor r of the bridge
Mirrored(r) ==
    \E ref \in RefsOf(call.ret) : objs[ref].sensor_id = int(r.id)

\* C36: the first get_sensor_objects call of a Session returns a Sensor
\* object for every sensor the bridge lists, whatever operation was made
\* before it, create_sensor included.
C36_FirstCallListsAll ==
    FirstSensorListing =>
        \A i \in 1..Len(call.before.hub.sensors) : Mirrored(call.before.hub.sensors[i])

\* the same, when no sensor was created before the call
C36_ListsAllUnlessCreated ==
    (FirstSensorListing /\ ~(prev.name = "create_sensor" /\ prev.ret.k = "tuple"
                             /\ prev.ret.v[1] # JNull))
        => C36_FirstCallListsAll

\* create_sensor on the fresh Session, then get_sensor_objects: one object
C36_OnlyCreatedReached ==
    ~(/\ FirstSensorListing /\ prev.name = "create_sensor"
      /\ call.prop = "list" /\ Len(call.ret.v) = 1 /\ call.reqs = <<>>
      /\ Len(call.before.hub.sensors) = 3)

\* the requests of call c sent with the given method
Sent(c, mode) == SelectSeq(c.reqs, LAMBDA q : q.rq.mode = mode)

\* no request of call c failed in the transport
Delivered(c) == \A i \in 1..Len(c.reqs) : c.reqs[i].how \in {"ok", "error"}

\* the id passed to the last delete_sensor, whether it was cached when the
\* call began, and the Sensor object it was cached with
DeletedId == call.value.v[1]
WasCached == HasKey([v |-> call.before.sensors_by_id], DeletedId)
DeletedRef == Get([v |-> call.before.sensors_by_id], DeletedId)

\* C38: delete_sensor takes the sensor out of sensors_by_id and out of
\* sensors_by_name together or out of neither; for an id that is not cached
\* it returns None, changes neither mapping and sends no DELETE; for a cached
\* id it sends exactly one DELETE (when no request fails in the transport).
C38_DeleteSensor ==
    call.name = "delete_sensor" =>
        /\ ~WasCached =>
              /\ call.ret = JNull /\ call.exc = NoExc
              /\ sensors_by_id = call.before.sensors_by_id
              /\ sensors_by_name = call.before.sensors_by_name
              /\ Sent(call, "DELETE") = <<>>
        /\ WasCached =>
              /\ HasKey([v |-> sensors_by_id], DeletedId)
                    <=> Cached(sensors_by_name, DeletedRef)
              /\ Delivered(call) => Len(Sent(call, "DELETE")) = 1

\* the parts that hold: an id that is not cached, and the two mappings
\* changing together
C38_UncachedOrTogether ==
    call.name = "delete_sensor" =>
        /\ ~WasCached =>
              /\ call.ret = JNull /\ call.exc = NoExc /\ call.reqs = <<>>
              /\ sensors_by_id = call.before.sensors_by_id
              /\ sensors_by_name = call.before.sensors_by_name
        /\ Len(Sent(call, "DELETE")) <= 1
        /\ Len(Sent(call, "DELETE")) = 1 <=>
              (WasCached /\ ~HasKey([v |-> sensors_by_id], DeletedId))
        /\ (WasCached /\ Cached(call.before.sensors_by_name, DeletedRef)) =>
              (HasKey([v |-> sensors_by_id], DeletedId)
                  <=> Cached(sensors_by_name, DeletedRef))

\* a cached sensor, its name read from the bridge, and no DELETE sent
C38_NoDeleteReached ==
    ~(/\ call.name = "delete_sensor" /\ WasCached /\ Delivered(call)
      /\ call.ret = JNull /\ call.exc = NoExc
      /\ Sent(call, "DELETE") = <<>>
      /\ sensors_by_id = call.before.sensors_by_id)

\* the last call assigned a string to sensor.name
RenamedSensor == call.name = "sensor_rename" /\ call.value.k = "str"

\* the read of the current name the setter begins with: on a Sensor that
\* holds no document it fetches one
OldName ==
    Sensor_getter([hub |-> call.before.hub, objs |-> call.before.objs,
                   by_id |-> call.before.by_id, by_name |-> call.before.by_name,
                   sensors_by_id |-> call.before.sensors_by_id,
                   sensors_by_name |-> call.before.sensors_by_name,
                   reqs |-> <<>>, plan |-> call.plan, exc |-> NoExc, ret |-> JNull],
                  call.ref, "name")

\* the write of the name, when the call made one
NameWrites == Sent(call, "PUT")
WriteRaised == NameWrites # <<>> /\ NameWrites[1].exc # NoExc

\* after a rename that returned: the old name is gone from sensors_by_name
\* and the new one leads to the Sensor the name was assigned to
Moved ==
    /\ ~HasKey([v |-> sensors_by_name], OldName.ret.s)
    /\ HasKey([v |-> sensors_by_name], call.value.s)
    /\ Get([v |-> sensors_by_name], call.value.s) = call.ref
    /\ objs[call.ref]._name = call.value
    /\ sensors_by_id = call.before.sensors_by_id

\* C39 as stated: assigning the current name sends no request and changes
\* nothing; another name reaches the cached name and sensors_by_name only
\* when the write returned, the old name then absent and the new one mapped
\* to the same Sensor; a write that raises is re-raised with the cached name
\* and the mapping as they were before the assignment.
C39_RenameAfterWrite ==
    (RenamedSensor /\ OldName.exc = NoExc) =>
        /\ call.value = OldName.ret =>
              /\ call.reqs = <<>> /\ call.exc = NoExc
              /\ objs = call.before.objs
              /\ sensors_by_name = call.before.sensors_by_name
        /\ call.value # OldName.ret =>
              /\ Len(NameWrites) = 1
              /\ ~WriteRaised => call.exc = NoExc /\ Moved
              /\ WriteRaised =>
                    /\ call.exc = NameWrites[1].exc
                    /\ objs[call.ref]._name = call.before.objs[call.ref]._name
                    /\ sensors_by_name = call.before.sensors_by_name

\* C39, amended: the same, the request and the cached document of the first
\* read of the name apart: assigning the current name sends no write, and
\* after a write that raised the Sensor is as that read left it.
C39_RenameAfterWriteAmended ==
    /\ (call.name = "sensor_rename" /\ call.value.k # "str") =>
          /\ call.exc.cls = "TypeError" /\ call.reqs = <<>>
          /\ objs = call.before.objs
          /\ sensors_by_name = call.before.sensors_by_name
    /\ (RenamedSensor /\ OldName.exc # NoExc) =>
          /\ call.exc = OldName.exc /\ call.reqs = OldName.reqs
          /\ objs = OldName.objs
          /\ sensors_by_name = call.before.sensors_by_name
    /\ (RenamedSensor /\ OldName.exc = NoExc) =>
          /\ call.value = OldName.ret =>
                /\ call.reqs = OldName.reqs /\ NameWrites = <<>> /\ call.exc = NoExc
                /\ objs = OldName.objs
                /\ sensors_by_name = call.before.sensors_by_name
          /\ call.value # OldName.ret =>
                /\ Len(call.reqs) = Len(OldName.reqs) + 1
                /\ Len(NameWrites) = 1
                /\ NameWrites[1].rq.address =
                      <<"sensors", str(JInt(objs[call.ref].sensor_id))>>
                /\ NameWrites[1].rq.data = JObj(<< <<"name", call.value>> >>)
                /\ ~WriteRaised => call.exc = NoExc /\ Moved
                /\ WriteRaised =>
                      /\ call.exc = NameWrites[1].exc
                      /\ objs = OldName.objs
                      /\ sensors_by_name = call.before.sensors_by_name
    /\ call.name = "sensor_rename" => sensors_by_id = call.before.sensors_by_id

\* a cached Sensor renamed, the write answered; and a write that timed out
C39_Witness ==
    /\ RenamedSensor /\ OldName.exc = NoExc
    /\ call.value # OldName.ret /\ ~WriteRaised /\ Moved
    /\ Cached(call.before.sensors_by_name, call.ref)
    /\ prev.name = "sensor_rename" /\ prev.exc.cls = "PhueRequestTimeout"
    /\ Len(Sent(prev, "PUT")) = 1

\* the current name assigned to a Sensor that holds no document: one GET
C39_FetchReached ==
    ~(/\ RenamedSensor /\ OldName.exc = NoExc /\ call.value = OldName.ret
      /\ call.before.objs[call.ref]._raw_data = JNull
      /\ Len(call.reqs) = 1 /\ call.reqs[1].rq.mode = "GET"
      /\ objs # call.before.objs)

=============================================================================
